---- MODULE Spec2Model ----
(***************************************************************************)
(* Relevance scoring (src/lib/scoring.ts) and AI batch reranking           *)
(* (src/lib/ai-reranker.ts) of verso-nextjs.                               *)
(*                                                                         *)
(* Numbers.  Scores that the code rounds to one decimal are integers in    *)
(* tenths (7.3 is 73).  Numbers of a parsed JSON reply are integers in     *)
(* hundredths (7.25 is 725, the index 1 is 100, the index 0.5 is 50).      *)
(* explorationLevel is in hundredths (0.5 is 50).  Products are carried    *)
(* exactly, the unit is stated at each definition.                         *)
(***************************************************************************)
EXTENDS Integers, Sequences, FiniteSets, TLC

VARIABLES
    pc,               \* position of the aiRerank call: start, await (a fetch is pending), done, thrown
    papers,           \* aiRerank's argument: the already scored list
    explorationLevel, \* profile.exploration_level (hundredths, or Undefined)
    apiKey,           \* config.apiKey
    batches,          \* const batches (ai-reranker.ts:270)
    batchIdx,         \* position of the for..of loop over batches (1-based)
    aiScores,         \* const aiScores: Map<number, ParsedScore>, keys in hundredths
    lastError,        \* let lastError ("" is undefined)
    batchesSucceeded, \* let batchesSucceeded
    inFlight,         \* offsets of the batches whose external call is pending
    calls,            \* history: one record per external call issued
    result,           \* the value aiRerank returned (meaningful when pc = "done")
    scorePc,          \* position of the processPapers call: idle, start, done
    userProfile,      \* processPapers' argument profile
    rawPapers,        \* processPapers' argument papers
    processed,        \* the value processPapers returned (meaningful when scorePc = "done")
    scorer,           \* const scorer (scoring.ts:1490) of the latest processPapers call
    scoreCalls,       \* history: arguments and returned value of each processPapers call
    request,          \* the body of the request the recommend endpoint received
    response          \* the answer of the recommend endpoint (status 0: none yet)

rerankVars == <<pc, papers, explorationLevel, apiKey, batches, batchIdx, aiScores,
                lastError, batchesSucceeded, inFlight, calls, result>>

scoreVars == <<scorePc, userProfile, rawPapers, processed, scorer, scoreCalls>>

httpVars == <<request, response>>

vars == <<rerankVars, scoreVars, httpVars>>

(***************************************************************************)
(* Bounds of the model and constants of the program.                       *)
(***************************************************************************)
BATCH_SIZE == 8
TopN == 40
MaxPapers == 41
MaxOddPapers == 3

\* sentinels for the JavaScript values NaN and undefined among the integers
NaN == -1000000
Undefined == -2000000

Min(a, b) == IF a < b THEN a ELSE b
Max(a, b) == IF a > b THEN a ELSE b

IsNaN(x) == x = NaN

\* Math.min / Math.max: NaN if either argument is NaN
MathMin(a, b) == IF IsNaN(a) \/ IsNaN(b) THEN NaN ELSE Min(a, b)
MathMax(a, b) == IF IsNaN(a) \/ IsNaN(b) THEN NaN ELSE Max(a, b)

\* mutant: b is moved before a also when the scores are equal
ComesBeforeOrTies(b, a) ==
    /\ ~IsNaN(a.relevance_score)
    /\ ~IsNaN(b.relevance_score)
    /\ b.relevance_score >= a.relevance_score

\* b.relevance_score - a.relevance_score > 0: b is to come before a
ComesBefore(b, a) ==
    /\ ~IsNaN(a.relevance_score)
    /\ ~IsNaN(b.relevance_score)
    /\ b.relevance_score > a.relevance_score

\* a stable sort with the comparator of ai-reranker.ts:338
RECURSIVE InsertSorted(_, _)
InsertSorted(sorted, x) ==
    IF sorted = <<>> THEN <<x>>
    ELSE IF ComesBefore(x, sorted[Len(sorted)])
           THEN InsertSorted(SubSeq(sorted, 1, Len(sorted) - 1), x)
                    \o <<sorted[Len(sorted)]>>
           ELSE sorted \o <<x>>

RECURSIVE StableSort(_)
StableSort(s) ==
    IF s = <<>> THEN <<>>
    ELSE InsertSorted(StableSort(SubSeq(s, 1, Len(s) - 1)), s[Len(s)])

\* String.prototype.includes
Includes(s, pat) ==
    \E i \in 0..(Len(s) - Len(pat)) : SubSeq(s, i + 1, i + Len(pat)) = pat

\* String.prototype.slice(0, n)
Slice(s, n) == IF Len(s) > n THEN SubSeq(s, 1, n) ELSE s

(***************************************************************************)
(* Taxonomy scoring (src/lib/scoring.ts).  Sub-scores in [0, 1] are integers *)
(* in 10^-6 (0.4692 is 469200); weights and confidences are in hundredths; *)
(* a quotient is cut to the unit.                                          *)
(***************************************************************************)
Ch(s, i) == SubSeq(s, i, i)

\* String.prototype.toLowerCase on the letters A..Z
LowerOf ==
    [c \in {"A", "B", "C", "D", "E", "F", "G", "H", "I", "J", "K", "L", "M", "N", "O",
            "P", "Q", "R", "S", "T", "U", "V", "W", "X", "Y", "Z"} |->
        CASE c = "A" -> "a" [] c = "B" -> "b" [] c = "C" -> "c" [] c = "D" -> "d"
          [] c = "E" -> "e" [] c = "F" -> "f" [] c = "G" -> "g" [] c = "H" -> "h"
          [] c = "I" -> "i" [] c = "J" -> "j" [] c = "K" -> "k" [] c = "L" -> "l"
          [] c = "M" -> "m" [] c = "N" -> "n" [] c = "O" -> "o" [] c = "P" -> "p"
          [] c = "Q" -> "q" [] c = "R" -> "r" [] c = "S" -> "s" [] c = "T" -> "t"
          [] c = "U" -> "u" [] c = "V" -> "v" [] c = "W" -> "w" [] c = "X" -> "x"
          [] c = "Y" -> "y" [] c = "Z" -> "z"]

ToLowerChar(c) == IF c \in DOMAIN LowerOf THEN LowerOf[c] ELSE c

\* the text is halved at each step, which keeps the nesting shallow
RECURSIVE toLowerCase(_)
toLowerCase(s) ==
    IF Len(s) <= 1 THEN ToLowerChar(s)
    ELSE toLowerCase(SubSeq(s, 1, Len(s) \div 2))
             \o toLowerCase(SubSeq(s, Len(s) \div 2 + 1, Len(s)))

\* two collapsed texts put together: where one ends and the other begins with a
\* blank a single blank is kept
JoinCollapsed(left, right) ==
    IF Ch(left, Len(left)) = " " /\ Ch(right, 1) = " "
      THEN left \o SubSeq(right, 2, Len(right))
      ELSE left \o right

\* .replace(/[-..]/g, " ").replace(/\s+/g, " ") for texts whose only dash is the
\* hyphen and whose only white space is the blank
RECURSIVE CollapseSpaces(_)
CollapseSpaces(s) ==
    IF Len(s) <= 1 THEN (IF s = "-" THEN " " ELSE s)
    ELSE JoinCollapsed(CollapseSpaces(SubSeq(s, 1, Len(s) \div 2)),
                       CollapseSpaces(SubSeq(s, Len(s) \div 2 + 1, Len(s))))

TrimStart(s) == IF s # "" /\ Ch(s, 1) = " " THEN SubSeq(s, 2, Len(s)) ELSE s

TrimEnd(s) == IF s # "" /\ Ch(s, Len(s)) = " " THEN SubSeq(s, 1, Len(s) - 1) ELSE s

\* String.prototype.trim for texts whose runs of spaces are collapsed
Trim(s) == TrimEnd(TrimStart(s))

normalizeText(text) ==
    IF text = "" THEN "" ELSE Trim(CollapseSpaces(toLowerCase(text)))

KeywordEntry(canonical, synonyms, weight) ==
    [canonical |-> canonical, synonyms |-> synonyms, weight |-> weight]

NoEntry == KeywordEntry("", <<>>, 0)

\* INTEREST_KEYWORDS, the entries the model uses (NoEntry: the label has none)
INTEREST_KEYWORDS(label) ==
    CASE label = "Inequality" ->
           KeywordEntry("inequality",
               << "income inequality", "wealth inequality", "economic inequality",
                  "income distribution", "wealth distribution", "gini coefficient",
                  "top 1%", "top income", "redistribution", "intergenerational" >>, 100)
      [] label = "Education" ->
           KeywordEntry("education",
               << "school", "student", "teacher", "college", "university",
                  "test score", "achievement gap", "graduation", "dropout",
                  "human capital", "educational attainment", "enrollment" >>, 90)
      [] label = "Labor Markets" ->
           KeywordEntry("labor",
               << "labour", "employment", "unemployment", "wage", "wages",
                  "worker", "job", "hiring", "layoff", "minimum wage",
                  "labor supply", "labor demand", "earnings", "workforce" >>, 85)
      [] OTHER -> NoEntry

\* METHOD_KEYWORDS, the entries the model uses
METHOD_KEYWORDS(label) ==
    CASE label = "Difference-in-Differences" ->
           KeywordEntry("difference-in-differences",
               << "diff-in-diff", "did ", "difference in differences", "parallel trends",
                  "two-way fixed effects", "twfe", "staggered", "event study", "pretrend",
                  "treated group", "control group", "treatment group",
                  "triple difference" >>, 100)
      [] label = "Panel Data Methods" ->
           KeywordEntry("panel data",
               << "fixed effects", "fixed effect", "random effects", "within estimator",
                  "longitudinal", "panel regression", "individual fixed effects",
                  "time fixed effects", "entity fixed effects", "year fixed effects" >>, 85)
      [] OTHER -> NoEntry

\* INTEREST_TO_CONCEPTS, the entries the model uses
INTEREST_TO_CONCEPTS(label) ==
    CASE label = "Inequality" ->
           << "inequality", "income distribution", "wealth distribution",
              "economic inequality", "income inequality", "social mobility",
              "poverty", "redistribution", "gini" >>
      [] label = "Education" ->
           << "education economics", "education", "human capital", "school",
              "student achievement", "higher education", "returns to education",
              "teacher", "college", "learning" >>
      [] OTHER -> <<>>

\* FIELD_TO_CONCEPTS, the entries the model uses
FIELD_TO_CONCEPTS(field) ==
    CASE field = "Labor Economics" ->
           << "labor economics", "wage", "employment", "human capital", "labor market",
              "unemployment" >>
      [] OTHER -> <<>>

isGeneralistField(field) ==
    \/ field = "General Interest (Show me everything)"
    \/ field = "Interdisciplinary / Multiple Fields"

isGeneralistLevel(level) ==
    level \in {"Curious Learner", "STEM Professional", "Business Professional", "Entrepreneur"}

isAdjacentField(field) == field \in {"psychology", "sociology", "management"}

Range(f) == {f[i] : i \in DOMAIN f}

\* mutant: every term counts as found
TermFoundAlways(textNorm, termNorm) == termNorm # ""

\* if (termNorm && textNorm.includes(termNorm))
TermFound(textNorm, termNorm) == termNorm # "" /\ Includes(textNorm, termNorm)

\* the loop of countKeywordMatches: the number of terms found in the text
CountTerms(textNorm, allTerms) ==
    Cardinality({k \in 1..Len(allTerms) : TermFound(textNorm, normalizeText(allTerms[k]))})

\* mutant: the full score needs four matches
MatchesScoreShifted(matches, weight) ==
    IF matches = 0 THEN <<0, 0>>
    ELSE IF matches <= 2 THEN <<matches, 60 * weight>>
    ELSE IF matches = 3 THEN <<matches, 80 * weight>>
    ELSE <<matches, 100 * weight>>

\* <<matches, score>> for a number of matches, the score in 10^-4
MatchesScore(matches, weight) ==
    IF matches = 0 THEN <<0, 0>>
    ELSE IF matches = 1 THEN <<matches, 60 * weight>>
    ELSE IF matches = 2 THEN <<matches, 80 * weight>>
    ELSE <<matches, 100 * weight>>

countKeywordMatches(text, entry) ==
    MatchesScore(CountTerms(normalizeText(text), <<entry.canonical>> \o entry.synonyms),
                 entry.weight)

\* the RelevanceScorer constructor
isGeneralist(profile) ==
    \/ isGeneralistField(profile.primary_field)
    \/ isGeneralistLevel(profile.academic_level)
    \/ profile.experience_type = "generalist"
    \/ profile.experience_type = "explorer"

hasInterests(profile) == Len(profile.interests) > 0
hasMethods(profile) == Len(profile.methods) > 0

\* mutant: the field concepts are added for generalists too
targetConceptsWithField(profile) ==
    {normalizeText(c) : c \in Range(FIELD_TO_CONCEPTS(profile.primary_field))}
    \cup UNION {{normalizeText(c) : c \in Range(INTEREST_TO_CONCEPTS(profile.interests[i]))} :
                    i \in 1..Len(profile.interests)}

\* this.targetConcepts as the constructor builds it
targetConcepts(profile) ==
    (IF ~isGeneralist(profile)
       THEN {normalizeText(c) : c \in Range(FIELD_TO_CONCEPTS(profile.primary_field))}
       ELSE {})
    \cup UNION {{normalizeText(c) : c \in Range(INTEREST_TO_CONCEPTS(profile.interests[i]))} :
                    i \in 1..Len(profile.interests)}

\* TIER_SCORES[tier] || 0.3, in hundredths
TIER_SCORES(tier) ==
    CASE tier = 1 -> 100 [] tier = 2 -> 80 [] tier = 3 -> 60 [] tier = 4 -> 30 [] OTHER -> 30

\* mutant: 60% citations, 40% tier
scoreBaselineSwapped(paper) ==
    LET tier == IF paper.journal_tier = 0 THEN 4 ELSE paper.journal_tier
        cites == paper.cited_by_count
        citeScore == IF cites >= 50 THEN 100
                     ELSE IF cites >= 20 THEN 85
                     ELSE IF cites >= 10 THEN 70
                     ELSE IF cites >= 5 THEN 55
                     ELSE IF cites >= 1 THEN 40
                     ELSE 30
    IN  3 * 10^6 + (TIER_SCORES(tier) * 4 + citeScore * 6) * 2 * 1000

\* scoreBaseline, in 10^-6; journal_tier 0 stands for a missing tier
scoreBaseline(paper) ==
    LET tier == IF paper.journal_tier = 0 THEN 4 ELSE paper.journal_tier
        tierScore == TIER_SCORES(tier)
        cites == paper.cited_by_count
        citeScore == IF cites >= 50 THEN 100
                     ELSE IF cites >= 20 THEN 85
                     ELSE IF cites >= 10 THEN 70
                     ELSE IF cites >= 5 THEN 55
                     ELSE IF cites >= 1 THEN 40
                     ELSE 30
        rawBaseline == tierScore * 6 + citeScore * 4
    IN  3 * 10^6 + rawBaseline * 2 * 1000


NoMatches == [matched |-> <<>>, weightedSum |-> 0]

\* matched.push(concept.name); weightedSum += conf, ahead of what the concepts
\* after this one add
AddConcept(concept, rest) ==
    [matched |-> <<concept.name>> \o rest.matched,
     weightedSum |-> concept.score + rest.weightedSum]

\* target.includes(name) || name.includes(target) for some target
ConceptHit(name, targets) ==
    \E target \in targets : Includes(target, name) \/ Includes(name, target)

\* the loop of scoreConcepts: the matched concept names and the sum of their
\* confidences (hundredths)
RECURSIVE MatchConcepts(_, _)
MatchConcepts(concepts, targets) ==
    IF concepts = <<>> THEN NoMatches
    ELSE IF ConceptHit(normalizeText(Head(concepts).name), targets)
      THEN AddConcept(Head(concepts), MatchConcepts(Tail(concepts), targets))
      ELSE MatchConcepts(Tail(concepts), targets)

\* Math.min(1.0, weightedSum / 1.5) in 10^-6, matched.slice(0, 5)
ConceptResult(m) ==
    [score |-> Min(10^6, (m.weightedSum * 2 * 10^4) \div 3), matched |-> Slice(m.matched, 5)]

NoScore == [score |-> 0, matched |-> <<>>]

ScoreAgainst(concepts, targets) ==
    IF Len(concepts) = 0 \/ targets = {} THEN NoScore
    ELSE ConceptResult(MatchConcepts(concepts, targets))

scoreConcepts(profile, paper) == ScoreAgainst(paper.concepts, targetConcepts(profile))

NoLabels == [matched |-> <<>>, scores |-> <<>>]

\* mutant: a label counts as matched only where no position decay has set in
AddLabelUndecayed(label, hit, posWeight, rest) ==
    IF hit[1] > 0 /\ posWeight = 100
      THEN [matched |-> <<label>> \o rest.matched,
            scores |-> <<hit[2] * posWeight>> \o rest.scores]
      ELSE rest

\* if (count > 0) { matched.push(label); scores.push(score * posWeight) }, ahead
\* of what the labels after this one add; scores in 10^-6
AddLabel(label, hit, posWeight, rest) ==
    IF hit[1] > 0
      THEN [matched |-> <<label>> \o rest.matched,
            scores |-> <<hit[2] * posWeight>> \o rest.scores]
      ELSE rest

\* if (!DICTIONARY[label]) continue; otherwise countKeywordMatches
HitOf(text, entry) == IF entry = NoEntry THEN <<0, 0>> ELSE countKeywordMatches(text, entry)

\* the loop of scoreInterestKeywords; i is the 0-based position
RECURSIVE MatchInterests(_, _, _)
MatchInterests(interests, i, text) ==
    IF i >= Len(interests) THEN NoLabels
    ELSE AddLabel(interests[i + 1], HitOf(text, INTEREST_KEYWORDS(interests[i + 1])),
                  Max(60, 100 - i * 8), MatchInterests(interests, i + 1, text))

\* the loop of scoreMethods
RECURSIVE MatchMethods(_, _, _)
MatchMethods(methods, i, text) ==
    IF i >= Len(methods) THEN NoLabels
    ELSE AddLabel(methods[i + 1], HitOf(text, METHOD_KEYWORDS(methods[i + 1])),
                  Max(50, 100 - i * 10), MatchMethods(methods, i + 1, text))

RECURSIVE SeqSum(_)
SeqSum(q) == IF q = <<>> THEN 0 ELSE Head(q) + SeqSum(Tail(q))

SeqMax(q) == CHOOSE x \in Range(q) : \A y \in Range(q) : x >= y

\* best * wBest + avg * wAvg with the weights in tenths
Combine(scores, wBest, wAvg) ==
    (SeqMax(scores) * wBest * Len(scores) + SeqSum(scores) * wAvg) \div (10 * Len(scores))

\* mutant: the combined score is divided among the matched labels
InterestBonusShared(combined, n) == combined \div n

\* if (matched.length >= 3) combined *= 1.2; else if (matched.length >= 2) combined *= 1.1
InterestBonus(combined, n) ==
    IF n >= 3 THEN (combined * 12) \div 10
    ELSE IF n >= 2 THEN (combined * 11) \div 10
    ELSE combined

InterestResult(m) ==
    IF m.scores = <<>> THEN NoScore
    ELSE [score |-> Min(10^6, InterestBonus(Combine(m.scores, 6, 4), Len(m.matched))),
          matched |-> m.matched]

scoreInterestKeywords(profile, text) ==
    IF ~hasInterests(profile) THEN NoScore
    ELSE InterestResult(MatchInterests(profile.interests, 0, text))

\* if (matched.length >= 2) combined *= 1.15
MethodBonusFactor(combined, n) == IF n >= 2 THEN (combined * 115) \div 100 ELSE combined

MethodResult(m) ==
    IF m.scores = <<>> THEN NoScore
    ELSE [score |-> Min(10^6, MethodBonusFactor(Combine(m.scores, 7, 3), Len(m.matched))),
          matched |-> m.matched]

scoreMethods(profile, text) ==
    IF ~hasMethods(profile) THEN NoScore
    ELSE MethodResult(MatchMethods(profile.methods, 0, text))

quantSignals ==
    { "regression", "coefficient", "standard error", "statistical", "p-value",
      "significance", "estimate", "model", "data", "sample", "observation", "variable",
      "econometric" }

qualSignals ==
    { "interview", "ethnograph", "case study", "qualitative", "participant", "fieldwork",
      "archival", "discourse", "narrative", "thematic", "interpretive" }

\* signals.filter(s => textLower.includes(s)).length
CountSignals(textLower, signals) == Cardinality({g \in signals : Includes(textLower, g)})

ApproachOf(quantCount, qualCount) ==
    IF quantCount > 2 /\ qualCount > 2 THEN "mixed"
    ELSE IF quantCount > 2 THEN "quantitative"
    ELSE IF qualCount > 2 THEN "qualitative"
    ELSE "unknown"

DetectIn(textLower) ==
    ApproachOf(CountSignals(textLower, quantSignals), CountSignals(textLower, qualSignals))

detectApproach(text) == DetectIn(toLowerCase(text))

\* the alignment for a detected approach, in 10^-6
AlignmentOf(pref, detected) ==
    IF detected = "unknown" THEN 5 * 10^5
    ELSE IF detected = "mixed" THEN 7 * 10^5
    ELSE IF detected = pref THEN 10^6
    ELSE 3 * 10^5

scoreApproachAlignment(profile, text) ==
    IF profile.approach_preference = "no_preference" \/ profile.approach_preference = "both"
      THEN 5 * 10^5
      ELSE AlignmentOf(profile.approach_preference, detectApproach(text))

\* mutant: the selected fields count also when include_adjacent_fields is off
scoreFieldRelevanceUngated(profile, paper) ==
    IF paper.journal_field = "" THEN [modifier |-> 100, adjacent |-> FALSE]
    ELSE IF paper.journal_field \in profile.selected_adjacent_fields
      THEN [modifier |-> 95, adjacent |-> TRUE]
    ELSE IF ~isAdjacentField(paper.journal_field) THEN [modifier |-> 100, adjacent |-> FALSE]
    ELSE [modifier |-> 70, adjacent |-> TRUE]

\* scoreFieldRelevance: the modifier in hundredths; journal_field "" is absent
scoreFieldRelevance(profile, paper) ==
    LET journalField == paper.journal_field
    IN  IF journalField = "" THEN [modifier |-> 100, adjacent |-> FALSE]
        ELSE IF /\ profile.include_adjacent_fields
                /\ journalField \in profile.selected_adjacent_fields
          THEN [modifier |-> 95, adjacent |-> TRUE]
        ELSE IF ~isAdjacentField(journalField) THEN [modifier |-> 100, adjacent |-> FALSE]
        ELSE [modifier |-> 70, adjacent |-> TRUE]

\* Array.prototype.join
RECURSIVE Join(_, _)
Join(parts, sep) ==
    IF parts = <<>> THEN ""
    ELSE IF Len(parts) = 1 THEN parts[1]
    ELSE parts[1] \o sep \o Join(Tail(parts), sep)

\* the parts buildExplanation pushes, in order; tier is paper.journal_tier || 4
ExplanationParts(matchedInterests, matchedMethods, tier, isAdjacent) ==
    (IF Len(matchedInterests) > 0
       THEN <<Join(Slice(matchedInterests, 2), ", ")>> ELSE <<>>)
    \o (IF Len(matchedMethods) > 0
          THEN <<"Uses " \o (IF Len(matchedMethods) = 1 THEN matchedMethods[1]
                             ELSE matchedMethods[1] \o " + more")>>
          ELSE <<>>)
    \o (IF tier = 1 THEN <<"Top journal">>
        ELSE IF tier = 2 THEN <<"Top field journal">> ELSE <<>>)
    \o (IF isAdjacent THEN <<"Related field">> ELSE <<>>)

JoinOrDefault(profile, parts) ==
    IF parts = <<>>
      THEN (IF isGeneralist(profile) THEN "Recent quality research"
            ELSE "Related to your field")
      ELSE Join(parts, " · ")

buildExplanation(profile, matchedInterests, matchedMethods, paper, isAdjacent) ==
    JoinOrDefault(profile,
        ExplanationParts(matchedInterests, matchedMethods,
                         IF paper.journal_tier = 0 THEN 4 ELSE paper.journal_tier,
                         isAdjacent))

\* Math.max(1.0, Math.min(10.0, rawScore)), in 10^-8
ClampScore(rawScore) == Max(10^8, Min(10^9, rawScore))

\* Math.round(finalScore * 10) without the division by 10
RoundOneDecimalTimesTen(finalScore) == ((finalScore + 5 * 10^6) \div 10^7) * 10

\* Math.round(finalScore * 10) / 10: from 10^-8 to tenths
RoundOneDecimal(finalScore) == (finalScore + 5 * 10^6) \div 10^7

\* `${title} ${title} ${abstract}`
TextOf(paper) == paper.title \o " " \o paper.title \o " " \o paper.abstract

\* mutant: no bonus when both scores are good
TopicBonusUnboosted(conceptScore, keywordScore) == Max(conceptScore, keywordScore)

\* Math.max(conceptScore, keywordScore), times 1.15 (at most 1.0) if both exceed 0.3
TopicBonus(conceptScore, keywordScore) ==
    IF conceptScore > 3 * 10^5 /\ keywordScore > 3 * 10^5
      THEN Min(10^6, (Max(conceptScore, keywordScore) * 115) \div 100)
      ELSE Max(conceptScore, keywordScore)

MethodBonus(profile, methodScore, approachScore) ==
    IF hasMethods(profile) THEN (methodScore * 8 + approachScore * 2) \div 10 ELSE 0

\* mutant: the concept bonus of generalists is given to every profile
TopicAdditionForAll(profile, topicBonus, conceptScore) ==
    IF hasInterests(profile) THEN topicBonus * 3 ELSE conceptScore

TopicAddition(profile, topicBonus, conceptScore) ==
    IF hasInterests(profile) THEN topicBonus * 3
    ELSE IF isGeneralist(profile) THEN conceptScore
    ELSE 0

MethodAddition(profile, methodBonus) == IF hasMethods(profile) THEN methodBonus * 2 ELSE 0

\* (baselineScore + topicAddition + methodAddition) * fieldRelevance, in 10^-8
RawScore(baselineScore, topicAddition, methodAddition, fieldRelevance) ==
    (baselineScore + topicAddition + methodAddition) * fieldRelevance

\* steps 1 to 4 of scorePaper and the two additions; scores in 10^-6
SubScores(profile, baselineScore, concept, keyword, method, approachScore, field) ==
    [baselineScore |-> baselineScore, conceptScore |-> concept.score,
     keywordScore |-> keyword.score, methodScore |-> method.score,
     approachScore |-> approachScore,
     topicAddition |-> TopicAddition(profile, TopicBonus(concept.score, keyword.score),
                                     concept.score),
     methodAddition |-> MethodAddition(profile,
                                       MethodBonus(profile, method.score, approachScore)),
     fieldRelevance |-> field.modifier, isAdjacent |-> field.adjacent,
     matchedInterests |-> keyword.matched, matchedMethods |-> method.matched,
     matchedConcepts |-> concept.matched]

\* the final score calculation; rawScore and finalScore in 10^-8
WithFinalScore(sub, rawScore) ==
    [sub |-> sub, rawScore |-> rawScore, finalScore |-> ClampScore(rawScore)]

FinalScoreOf(sub) ==
    WithFinalScore(sub, RawScore(sub.baselineScore, sub.topicAddition, sub.methodAddition,
                                 sub.fieldRelevance))

\* scorePaper up to finalScore (scoring.ts:1390-1451)
ScoreParts(profile, paper) ==
    FinalScoreOf(SubScores(profile, scoreBaseline(paper), scoreConcepts(profile, paper),
                           scoreInterestKeywords(profile, TextOf(paper)),
                           scoreMethods(profile, TextOf(paper)),
                           scoreApproachAlignment(profile, TextOf(paper)),
                           scoreFieldRelevance(profile, paper)))

\* the MatchScore fields processPapers reads; total in tenths
MatchScore(profile, paper, parts) ==
    [total |-> RoundOneDecimal(parts.finalScore),
     matched_interests |-> parts.sub.matchedInterests,
     matched_methods |-> parts.sub.matchedMethods,
     matched_topics |-> parts.sub.matchedConcepts,
     explanation |-> buildExplanation(profile, parts.sub.matchedInterests,
                                      parts.sub.matchedMethods, paper, parts.sub.isAdjacent),
     is_adjacent_field |-> parts.sub.isAdjacent]

scorePaper(profile, paper) == MatchScore(profile, paper, ScoreParts(profile, paper))

\* { ...paper, relevance_score: match.total, ... }
WithMatch(paper, match) ==
    [id |-> paper.id, title |-> paper.title, abstract |-> paper.abstract,
     journal_tier |-> paper.journal_tier, journal_field |-> paper.journal_field,
     concepts |-> paper.concepts, cited_by_count |-> paper.cited_by_count,
     relevance_score |-> match.total,
     matched_interests |-> match.matched_interests,
     matched_methods |-> match.matched_methods,
     matched_topics |-> match.matched_topics,
     match_explanation |-> match.explanation,
     is_adjacent_field |-> match.is_adjacent_field]

\* the callback of papers.map in processPapers
ScoreOne(profile, paper) == WithMatch(paper, scorePaper(profile, paper))

\* results.filter((p) => p.relevance_score >= 7.0).length
HighCount(results) ==
    Cardinality({i \in 1..Len(results) : results[i].relevance_score >= 70})

SummaryPrefix(profile) ==
    IF Len(profile.interests) = 0 /\ Len(profile.methods) = 0
      THEN "Showing quality research:" ELSE "Analyzed"

\* the sorted results and the summary line
Summarize(profile, total, results) ==
    [papers |-> results,
     summary |-> SummaryPrefix(profile) \o " " \o ToString(total) \o " papers · "
                     \o ToString(HighCount(results)) \o " highly relevant"]

processPapers(profile, ps) ==
    IF Len(ps) = 0 THEN [papers |-> <<>>, summary |-> "No papers found."]
    ELSE Summarize(profile, Len(ps),
                   StableSort([i \in 1..Len(ps) |-> ScoreOne(profile, ps[i])]))

\* no call has built a scorer yet
NoScorer == [built |-> FALSE]

\* mutant: the interests of the previous call's scorer are kept when the
\* profile names none
NewRelevanceScorerKeeping(existing, profile) ==
    IF existing.built /\ profile.interests = <<>>
      THEN [profile |-> [profile EXCEPT !.interests = existing.profile.interests],
            built |-> TRUE]
      ELSE [profile |-> profile, built |-> TRUE]

\* new RelevanceScorer(profile): every call builds its own instance from its
\* own argument; no instance of an earlier call is kept or consulted
NewRelevanceScorer(existing, profile) == [profile |-> profile, built |-> TRUE]

\* mutant: the scored fields are assigned to the input papers, and the input
\* array is the one that is sorted
ProcessArraysInPlace(ps, returned) ==
    [papers |-> returned.papers, scoredPapers |-> returned.papers]

\* the arrays processPapers holds when it returns, by the name of the variable
\* that refers to them: map (1492) allocates a new array of new objects
\* ({ ...paper, ... }), and sort (1506) reorders that array in place
ProcessArrays(ps, returned) ==
    IF Len(ps) = 0 THEN [papers |-> ps]
    ELSE [papers |-> ps, scoredPapers |-> returned.papers]

(***************************************************************************)
(* The external service.  A reply is what one fetch delivers: the request  *)
(* is aborted by the 30 s timer, the network fails, an HTTP error status   *)
(* with the server's message, or HTTP 200 with the candidate's text.       *)
(***************************************************************************)
DEFAULT_MODEL == "gemini-2.5-flash"

\* JSON values of a reply entry: t is the JavaScript type
JNum(n) == [t |-> "number", n |-> n, s |-> ""]
JStr(s) == [t |-> "string", n |-> 0, s |-> s]
JNull == [t |-> "null", n |-> 0, s |-> ""]
JUndef == [t |-> "undefined", n |-> 0, s |-> ""]

\* one element of the parsed array: an object with the properties i, r, s, d, e
\* (obj = FALSE is a null element)
Item(i, r, s, d, e) == [obj |-> TRUE, i |-> i, r |-> r, s |-> s, d |-> d, e |-> e]
NullItem == [obj |-> FALSE, i |-> JUndef, r |-> JUndef, s |-> JUndef, d |-> JUndef, e |-> JUndef]

\* the candidate text: something JSON.parse rejects, a JSON value that is no
\* array, or an array of items
TextArray(items) == [kind |-> "array", items |-> items]
TextNotJson == [kind |-> "not_json", items |-> <<>>]
TextNotArray == [kind |-> "not_array", items |-> <<>>]
NoText == [kind |-> "none", items |-> <<>>]

ReplyAbort == [net |-> "abort", status |-> 0, msg |-> "", finish |-> "", text |-> NoText]
ReplyNetFail == [net |-> "fail", status |-> 0, msg |-> "", finish |-> "", text |-> NoText]
ReplyHttp(status, msg) ==
    [net |-> "ok", status |-> status, msg |-> msg, finish |-> "", text |-> NoText]
ReplyOk(text, finish) ==
    [net |-> "ok", status |-> 200, msg |-> "", finish |-> finish, text |-> text]

MsgQuota == "Quota exceeded for " \o DEFAULT_MODEL \o ". Try a different model in the dropdown."
MsgInvalidKey == "Invalid API key. Check your key at aistudio.google.com."
MsgPermission ==
    "API key lacks permission. Enable 'Generative Language API' in Google Cloud Console."
MsgModel == "Model \"" \o DEFAULT_MODEL \o "\" not available. Try a different model."
MsgSafety == "Response blocked by safety filter. Try again."
MsgEmpty == "Empty response from Gemini"
MsgTimeout == "Gemini request timed out (30s). Try again or use a faster model."
MsgFetchFailed == "fetch failed"
MsgNoKey == "No API key"
MsgNoResults == "AI scoring returned no results"

Returned(text) == [threw |-> FALSE, message |-> "", text |-> text]
Threw(message) == [threw |-> TRUE, message |-> message, text |-> NoText]

\* callGemini: the text it returns or the Error it throws, for one reply
callGemini(reply) ==
    IF reply.net = "abort" THEN Threw(MsgTimeout)
    ELSE IF reply.net = "fail" THEN Threw(MsgFetchFailed)
    ELSE IF reply.status # 200 THEN
        LET msg == IF reply.msg # "" THEN reply.msg ELSE "HTTP " \o ToString(reply.status)
        IN  IF reply.status = 429 \/ Includes(msg, "quota") \/ Includes(msg, "limit")
              THEN Threw(MsgQuota)
            ELSE IF reply.status = 400 /\ (Includes(msg, "API key") \/ Includes(msg, "API_KEY"))
              THEN Threw(MsgInvalidKey)
            ELSE IF reply.status = 403 THEN Threw(MsgPermission)
            ELSE IF reply.status = 404 THEN Threw(MsgModel)
            ELSE Threw("Gemini error: " \o msg)
    ELSE IF reply.text.kind = "none" THEN
        IF reply.finish = "SAFETY" THEN Threw(MsgSafety) ELSE Threw(MsgEmpty)
    ELSE Returned(reply.text)

(***************************************************************************)
(* parseScores                                                             *)
(***************************************************************************)
\* x ?? y
Coalesce(x, y) == IF x.t \in {"null", "undefined"} THEN y ELSE x

\* ToNumber of a JSON value, in hundredths: a string that is no numeral is NaN
ToNumber(x) ==
    IF x.t = "number" THEN x.n
    ELSE IF x.t = "null" THEN 0
    ELSE NaN

\* Math.max(1, Math.min(10, Math.round(x * 10) / 10)) for x in hundredths;
\* the value is in tenths
RoundClampScore(x) ==
    LET n == ToNumber(x)
        rounded == IF IsNaN(n) THEN NaN ELSE (n + 5) \div 10
    IN  MathMax(10, MathMin(100, rounded))

\* the filter of parseScores (ai-reranker.ts:223-228)
ValidItem(item, expectedCount) ==
    /\ item.obj
    /\ item.i.t = "number"
    /\ (item.r.t = "number" \/ item.s.t = "number")
    /\ item.i.n >= 0
    /\ item.i.n < expectedCount * 100

\* the map of parseScores (ai-reranker.ts:229-235)
ParsedScore(item) ==
    [index |-> item.i.n,
     score |-> RoundClampScore(Coalesce(item.r, Coalesce(item.s, JNum(500)))),
     discovery |-> RoundClampScore(
         Coalesce(item.d, Coalesce(item.r, Coalesce(item.s, JNum(500))))),
     reason |-> IF item.e.t = "string" THEN Slice(item.e.s, 80)
                ELSE IF item.r.t = "string" THEN Slice(item.r.s, 80)
                ELSE ""]

RECURSIVE FilterMap(_, _)
FilterMap(items, expectedCount) ==
    IF items = <<>> THEN <<>>
    ELSE LET rest == FilterMap(Tail(items), expectedCount)
         IN  IF ValidItem(Head(items), expectedCount)
               THEN <<ParsedScore(Head(items))>> \o rest
               ELSE rest

parseScores(text, expectedCount) ==
    IF text.kind = "array" THEN FilterMap(text.items, expectedCount) ELSE <<>>

(***************************************************************************)
(* aiRerank: batches, blending, re-sort                                     *)
(***************************************************************************)
\* a ScoredPaper as processPapers returns it: no ai_* fields
ScoredPaper(id, score, explanation) ==
    [id |-> id, relevance_score |-> score, match_explanation |-> explanation,
     original_score |-> Undefined, ai_score |-> Undefined, ai_discovery |-> Undefined,
     ai_explanation |-> ""]

\* Array.prototype.slice(from, to), 0-based, end exclusive
ArraySlice(s, from, to) == SubSeq(s, from + 1, Min(to, Len(s)))

toScore(ps) == ArraySlice(ps, 0, TopN)

\* mutant: the remainder starts one paper late
remainderSkipping(ps) == ArraySlice(ps, TopN + 1, Len(ps))

remainder(ps) == ArraySlice(ps, TopN, Len(ps))

\* the loop that builds the batches (ai-reranker.ts:270-273)
\* mutant: the batches overlap by one paper
BuildBatchesOverlapping(ts) ==
    [b \in 1..((Len(ts) + BATCH_SIZE - 1) \div BATCH_SIZE) |->
        [papers |-> ArraySlice(ts, (b - 1) * BATCH_SIZE, b * BATCH_SIZE + 1),
         offset |-> (b - 1) * BATCH_SIZE]]

\* for (let i = 0; i < toScore.length; i += BATCH_SIZE) batches.push(...)
BuildBatches(ts) ==
    [b \in 1..((Len(ts) + BATCH_SIZE - 1) \div BATCH_SIZE) |->
        [papers |-> ArraySlice(ts, (b - 1) * BATCH_SIZE, b * BATCH_SIZE),
         offset |-> (b - 1) * BATCH_SIZE]]

\* mutant: the key leaves out batch.offset
RECURSIVE SetScoresNoOffset(_, _, _)
SetScoresNoOffset(map, offset, scores) ==
    IF scores = <<>> THEN map
    ELSE LET key == Head(scores).index
             next == [k \in (DOMAIN map) \cup {key} |->
                         IF k = key THEN Head(scores) ELSE map[k]]
         IN  SetScoresNoOffset(next, offset, Tail(scores))

\* aiScores.set(batch.offset + score.index, score) for each score in turn
RECURSIVE SetScores(_, _, _)
SetScores(map, offset, scores) ==
    IF scores = <<>> THEN map
    ELSE LET key == offset * 100 + Head(scores).index
             next == [k \in (DOMAIN map) \cup {key} |->
                         IF k = key THEN Head(scores) ELSE map[k]]
         IN  SetScores(next, offset, Tail(scores))

\* mutant: every reply that arrives counts as a success
CountSuccessAlways(n, scores) == n + 1

\* if (scores.length > 0) batchesSucceeded++
CountSuccess(n, scores) == IF Len(scores) > 0 THEN n + 1 ELSE n

\* mutant: the test for "odel" is left out
ShouldBreakNoModel(message) ==
    \/ Includes(message, "key")
    \/ Includes(message, "uota")
    \/ Includes(message, "permission")

\* the test that ends the batch loop (ai-reranker.ts:290)
ShouldBreak(message) ==
    \/ Includes(message, "key")
    \/ Includes(message, "uota")
    \/ Includes(message, "permission")
    \/ Includes(message, "odel")

\* profile.exploration_level ?? 0.5, in hundredths
Exploration(level) == IF level = Undefined THEN 50 ELSE level

\* mutant: the weight grows with the exploration level
taxonomyWeightGrowing(e) == 350 + e * 2

\* 0.55 - explorationLevel * 0.2, in thousandths
taxonomyWeight(e) == 550 - e * 2
\* 1.0 - taxonomyWeight, in thousandths
aiWeight(e) == 1000 - taxonomyWeight(e)

\* aiResult.score * (1 - e * 0.4) + aiResult.discovery * e * 0.4, in 10^-4
aiCombined(aiResult, e) ==
    IF IsNaN(aiResult.score) \/ IsNaN(aiResult.discovery) THEN NaN
    ELSE aiResult.score * (1000 - 4 * e) + aiResult.discovery * 4 * e

\* Math.round(Math.max(1, Math.min(10, original * tw + combined * aw)) * 10) / 10;
\* the sum is in 10^-7, the value in tenths
blended(originalScore, aiResult, e) ==
    LET combined == aiCombined(aiResult, e)
        raw == IF IsNaN(combined) \/ IsNaN(originalScore) THEN NaN
               ELSE originalScore * taxonomyWeight(e) * 1000 + combined * aiWeight(e)
        clamped == MathMax(10^7, MathMin(10^8, raw))
    IN  IF IsNaN(clamped) THEN NaN ELSE (clamped + 5 * 10^5) \div 10^6

\* the callback of toScore.map (ai-reranker.ts:312-335); idx is 0-based
BlendPaper(paper, idx, scores, e) ==
    IF idx * 100 \notin DOMAIN scores THEN paper
    ELSE LET aiResult == scores[idx * 100]
         IN  [paper EXCEPT
                 !.relevance_score = blended(paper.relevance_score, aiResult, e),
                 !.original_score = paper.relevance_score,
                 !.ai_score = aiResult.score,
                 !.ai_discovery = aiResult.discovery,
                 !.ai_explanation = aiResult.reason,
                 !.match_explanation =
                     IF aiResult.reason # "" THEN aiResult.reason
                     ELSE paper.match_explanation]

\* Array.prototype.sort: with a score that is NaN the comparator is not a
\* consistent comparison function, and the order is implementation-defined
SortOutcomes(s) ==
    IF \E i \in 1..Len(s) : IsNaN(s[i].relevance_score)
      THEN {[i \in 1..Len(s) |-> s[p[i]]] : p \in Permutations(1..Len(s))}
      ELSE {StableSort(s)}

\* if (batchesSucceeded === 0)
NothingSucceeded(n) == n = 0

\* lastError || "AI scoring returned no results"
ErrorOrDefault(message) == IF message # "" THEN message ELSE MsgNoResults

\* mutant: the sliced list is returned in place of the input
UnchangedResultSliced(ps, message) ==
    [papers |-> toScore(ps), aiEnhanced |-> FALSE, aiPapersScored |-> 0, error |-> message]

UnchangedResult(ps, message) ==
    [papers |-> ps, aiEnhanced |-> FALSE, aiPapersScored |-> 0, error |-> message]

\* mutant: the sort is applied after the remainder is appended
FinalPapersResorted(sorted, rest) == StableSort(sorted \o rest)

\* [...scoredPapers, ...remainder]
FinalPapers(sorted, rest) == sorted \o rest

ScoredPapers(ps, scores, e) ==
    [i \in 1..Len(toScore(ps)) |-> BlendPaper(ps[i], i - 1, scores, e)]

\* what aiRerank returns once the loop is over (ai-reranker.ts:296-345)
Results(ps, scores, message, succeeded, level) ==
    IF NothingSucceeded(succeeded)
      THEN {UnchangedResult(ps, ErrorOrDefault(message))}
      ELSE {[papers |-> FinalPapers(sorted, remainder(ps)),
             aiEnhanced |-> TRUE,
             aiPapersScored |-> Cardinality(DOMAIN scores),
             error |-> message] :
                sorted \in SortOutcomes(ScoredPapers(ps, scores, Exploration(level)))}

\* the arrays aiRerank holds when it returns, by the name of the variable that
\* refers to them: slice (262-263) and map (312) allocate new arrays, a blended
\* paper is a new object ({ ...paper }), and sort (338) reorders scoredPapers,
\* the array map returned, in place
RerankArrays(ps, returned) ==
    IF returned.aiEnhanced
      THEN [papers |-> ps, toScore |-> toScore(ps), remainder |-> remainder(ps),
            scoredPapers |-> ArraySlice(returned.papers, 0, Len(toScore(ps)))]
      ELSE [papers |-> ps, toScore |-> toScore(ps), remainder |-> remainder(ps)]

\* mutant: the timeout is rethrown
CatchesButTimeout(message) == message # MsgTimeout

\* catch (error) has no filter: whatever the try block throws is caught
Catches(message) == TRUE

(***************************************************************************)
(* The inputs and the replies the model enumerates                         *)
(***************************************************************************)
\* taxonomy scores as processPapers leaves them: tenths in [10, 100], sorted
\* descending, with ties
TaxonomyScore(i) == Max(10, 96 - 2 * ((i - 1) \div 2))

InputPapers(n) == [i \in 1..n |-> ScoredPaper(i, TaxonomyScore(i), "Top journal")]

PaperCounts == (0..MaxOddPapers) \cup {BATCH_SIZE + 1, MaxPapers}

ExplorationLevels == {0, 100, Undefined}

ApiKeys == {"", "AIza-key"}

\* a reply that scores every paper of the batch: relevance and discovery differ,
\* are not multiples of 0.1 and reverse the taxonomy order
FullItems(k) ==
    [j \in 1..k |->
        Item(JNum((j - 1) * 100), JNum(100 + 115 * (j - 1)), JUndef,
             JNum(985 - 100 * (j - 1)), JStr("cross-field link"))]

\* a reply with one valid entry (out-of-range scores) among malformed ones
PartialItems(k) ==
    << Item(JNum(0), JNum(1250), JUndef, JNum(-300), JStr("")),
       Item(JNum(k * 100), JNum(700), JUndef, JNum(700), JStr("index out of range")),
       Item(JStr("1"), JNum(700), JUndef, JNum(700), JStr("index is a string")),
       Item(JNum(100), JUndef, JUndef, JNum(500), JStr("no score")),
       NullItem >>

\* replies enumerated for short lists only
OddTexts ==
    { TextNotArray,
      TextArray(<<Item(JNum(0), JNum(700), JUndef, JStr("high"), JStr("d is a word"))>>),
      TextArray(<<Item(JNum(0), JUndef, JNum(804), JUndef, JUndef)>>),
      TextArray(<<Item(JNum(50), JNum(700), JUndef, JNum(400), JStr("index 0.5"))>>),
      TextArray(<<Item(JNum(0), JNum(300), JUndef, JNull, JStr("first")),
                  Item(JNum(0), JNum(900), JUndef, JNum(200), JStr("second"))>>) }

Replies(k, n) ==
    { ReplyAbort,
      ReplyHttp(429, ""),
      ReplyHttp(400, "API key not valid. Please pass a valid API key."),
      ReplyHttp(403, ""),
      ReplyHttp(404, ""),
      ReplyHttp(500, ""),
      ReplyOk(NoText, "STOP"),
      ReplyOk(TextNotJson, "STOP"),
      ReplyOk(TextArray(FullItems(k)), "STOP"),
      ReplyOk(TextArray(PartialItems(k)), "STOP") }
    \cup
    (IF n <= MaxOddPapers
       THEN { ReplyNetFail, ReplyOk(NoText, "SAFETY"),
              ReplyHttp(503, "The model is overloaded. Please try again later.") }
            \cup {ReplyOk(t, "STOP") : t \in OddTexts}
       ELSE {})

(***************************************************************************)
(* Inputs of processPapers: typed UserProfile and Paper values             *)
(***************************************************************************)
\* longest list of papers handed to processPapers
MaxScorePapers == 2

Profile(field, interests, methods, approach, adjacent, selected) ==
    [academic_level |-> "PhD Student", primary_field |-> field,
     experience_type |-> "specialist", interests |-> interests, methods |-> methods,
     approach_preference |-> approach, include_adjacent_fields |-> adjacent,
     selected_adjacent_fields |-> selected]

NoProfile == Profile("", <<>>, <<>>, "no_preference", FALSE, {})

Profiles ==
    { Profile(field, interests, methods, approach, adjacent, selected) :
        field \in {"Labor Economics", "General Interest (Show me everything)"},
        interests \in {<<>>, <<"Inequality">>, <<"Inequality", "Education", "Labor Markets">>},
        methods \in {<<>>, <<"Difference-in-Differences">>,
                     <<"Difference-in-Differences", "Panel Data Methods">>},
        approach \in {"no_preference", "quantitative"},
        adjacent \in BOOLEAN,
        selected \in {{}, {"psychology"}} }

\* the profile of the call that runs beside an aiRerank call
CallProfile ==
    Profile("Labor Economics", <<"Inequality">>, <<"Difference-in-Differences">>,
            "quantitative", FALSE, {})

Concept(name, score) == [name |-> name, score |-> score]

\* a paper every component of the score favours
StrongPaper ==
    [id |-> "strong",
     title |-> "Income Inequality and Education: Difference-in-Differences Evidence",
     abstract |-> "Panel data with fixed effects: a regression model of the wealth gap, "
                  \o "schooling and employment in the labor market under parallel trends.",
     journal_tier |-> 1, journal_field |-> "economics", cited_by_count |-> 60,
     concepts |-> << Concept("Income inequality", 90), Concept("Labor market", 80),
                     Concept("Education", 70) >>]

\* a paper no component favours, in an adjacent field
WeakPaper ==
    [id |-> "weak", title |-> "Notes on Perception", abstract |-> "",
     journal_tier |-> 0, journal_field |-> "sociology", cited_by_count |-> 0,
     concepts |-> <<>>]

\* a qualitative paper of a selected adjacent field
MiddlePaper ==
    [id |-> "middle",
     title |-> "Schooling and Student Achievement",
     abstract |-> "Interview and fieldwork with each participant: a qualitative case study.",
     journal_tier |-> 2, journal_field |-> "psychology", cited_by_count |-> 12,
     concepts |-> << Concept("Wage", 40) >>]

PaperPool == {StrongPaper, WeakPaper, MiddlePaper}

RECURSIVE PaperLists(_)
PaperLists(n) ==
    IF n = 0 THEN {<<>>}
    ELSE LET shorter == PaperLists(n - 1)
         IN  shorter \cup {Append(l, [p EXCEPT !.id = p.id \o "-" \o ToString(n)]) :
                              l \in {q \in shorter : Len(q) = n - 1}, p \in PaperPool}

\* highest citation count of a single paper
MaxCites == 60
MaxCalls == 3

\* citation counts on both sides of every bucket of scoreBaseline
CiteCounts == {0, 1, 4, 5, 9, 10, 19, 20, 49, 50, MaxCites}

\* a paper of a given journal tier (0: missing, 5: not a key of TIER_SCORES),
\* citation count and field tag ("": missing), whose text has no term of any
\* dictionary entry (plain), the single term "inequality" (single), the three
\* terms "inequality", "income inequality", "intergenerational" (scenario), or
\* is the text of StrongPaper with its concepts (tagged)
PaperCase(tier, cites, field, kind) ==
    [id |-> kind,
     title |-> CASE kind = "plain" -> WeakPaper.title
                 [] kind = "single" -> "Inequality in Cities"
                 [] kind = "scenario" -> "Income Inequality and Intergenerational Mobility"
                 [] kind = "mixed" -> "Income Inequality and Intergenerational Mobility"
                 [] kind = "rising" -> "Inequality in Schools"
                 [] OTHER -> StrongPaper.title,
     abstract |-> CASE kind = "plain" -> ""
                    [] kind = "single" -> "A survey."
                    [] kind = "scenario" -> "We relate income inequality to the gini index."
                    [] kind = "mixed" -> "We relate income inequality to college fees."
                    [] kind = "rising" -> "Students, teachers and college enrollment."
                    [] OTHER -> StrongPaper.abstract,
     journal_tier |-> tier, journal_field |-> field, cited_by_count |-> cites,
     concepts |-> IF kind = "tagged" THEN StrongPaper.concepts ELSE <<>>]

\* every tier and citation bucket, on a plain untagged paper
GridPapers == {PaperCase(tier, cites, "", "plain") : tier \in 0..5, cites \in CiteCounts}

\* the best and the worst journal and citation count, with every field tag and text
PaperCases ==
    {PaperCase(tc[1], tc[2], field, kind) :
        tc \in {<<1, MaxCites>>, <<4, 0>>},
        field \in {"", "economics", "psychology"},
        kind \in {"plain", "single", "scenario", "tagged"}}
    \cup {PaperCase(1, MaxCites, "", kind) : kind \in {"mixed", "rising"}}

\* the profiles, and those that select a field that is not an adjacent one
ProfileCases ==
    Profiles \cup {[q EXCEPT !.selected_adjacent_fields = {"economics"}] : q \in Profiles}
    \cup {[q EXCEPT !.experience_type = "explorer"] :
              q \in {r \in Profiles : r.interests = <<>> /\ ~isGeneralist(r)}}

NoProcessed == [papers |-> <<>>, summary |-> ""]

(***************************************************************************)
(* The recommend endpoint: request bodies and answers                      *)
(***************************************************************************)
\* a JSON value that is absent (undefined) or null, a string, a plain object
AbsentValue == [t |-> "undefined", name |-> "", fields |-> <<>>, items |-> <<>>]
NullValue == [t |-> "null", name |-> "", fields |-> <<>>, items |-> <<>>]
StringValue == [t |-> "string", name |-> "", fields |-> <<>>, items |-> <<>>]
ObjectValue == [t |-> "object", name |-> "", fields |-> <<>>, items |-> <<>>]

\* body.profile: a UserProfile with its name
ProfileValue(name, q) == [t |-> "object", name |-> name, fields |-> q, items |-> <<>>]

\* body.papers: an array of papers
ArrayValue(ps) == [t |-> "array", name |-> "", fields |-> <<>>, items |-> ps]

\* what request.json() delivers: it rejects (the body is no JSON), or the body
\* is null, a primitive, or an object with the properties profile and papers
Body(kind, profile, ps) == [kind |-> kind, profile |-> profile, papers |-> ps]

NoRequest == Body("none", AbsentValue, AbsentValue)

\* !x for the values above (the string is not empty)
Falsy(x) == x.t \in {"undefined", "null"}

MsgProfileRequired == "Profile is required"
MsgPapersRequired == "Papers array is required"
MsgProfileIncomplete == "Profile must include name, interests, and methods"
\* error.message of the SyntaxError of request.json() and of the TypeError of
\* destructuring null (the wording is the engine's)
MsgNoJson == "Unexpected token in JSON"
MsgDestructure == "Cannot destructure property 'profile' of 'body' as it is null."

NoResponse ==
    [status |-> 0, error |-> "", papers |-> <<>>, summary |-> "", high_relevance_count |-> 0]

\* NextResponse.json({ error }, { status })
ErrorResponse(status, message) ==
    [status |-> status, error |-> message, papers |-> <<>>, summary |-> "",
     high_relevance_count |-> 0]

\* NextResponse.json({ papers, summary, high_relevance_count })
OkResponse(returned) ==
    [status |-> 200, error |-> "", papers |-> returned.papers, summary |-> returned.summary,
     high_relevance_count |-> HighCount(returned.papers)]

\* POST up to the call of processPapers (route.ts:13-38, and the catch block
\* 49-59): the answer that ends the request, or NoResponse if it goes on
Rejection(body) ==
    IF body.kind = "not_json" THEN ErrorResponse(500, MsgNoJson)
    ELSE IF body.kind = "null" THEN ErrorResponse(500, MsgDestructure)
    ELSE IF Falsy(body.profile) THEN ErrorResponse(400, MsgProfileRequired)
    ELSE IF Falsy(body.papers) \/ body.papers.t # "array"
      THEN ErrorResponse(400, MsgPapersRequired)
    ELSE IF \/ body.profile.name = ""
            \/ Len(body.profile.fields.interests) = 0
            \/ Len(body.profile.fields.methods) = 0
      THEN ErrorResponse(400, MsgProfileIncomplete)
    ELSE NoResponse

\* a profile with interests only, and one with methods only
InterestsOnlyProfile ==
    Profile("Labor Economics", <<"Inequality">>, <<>>, "no_preference", FALSE, {})
MethodsOnlyProfile ==
    Profile("Labor Economics", <<>>, <<"Difference-in-Differences">>, "no_preference", FALSE, {})

RequestProfiles ==
    {AbsentValue, NullValue}
    \cup {ProfileValue(name, q) :
              name \in {"", "Ada"},
              q \in {NoProfile, CallProfile, InterestsOnlyProfile, MethodsOnlyProfile}}

RequestPapers ==
    {AbsentValue, NullValue, StringValue, ObjectValue}
    \cup {ArrayValue(ps) : ps \in {<<>>, <<MiddlePaper>>, <<WeakPaper, StrongPaper>>}}

Requests ==
    {Body("not_json", AbsentValue, AbsentValue), Body("null", AbsentValue, AbsentValue),
     Body("primitive", AbsentValue, AbsentValue)}
    \cup {Body("object", q, ps) : q \in RequestProfiles, ps \in RequestPapers}

(***************************************************************************)
(* The state machine of one aiRerank call                                  *)
(***************************************************************************)
NoResult == [papers |-> <<>>, aiEnhanced |-> FALSE, aiPapersScored |-> 0, error |-> ""]

Ids(ps) == [i \in 1..Len(ps) |-> ps[i].id]

Pending(batch) ==
    [offset |-> batch.offset, sent |-> Ids(batch.papers), pending |-> TRUE,
     threw |-> FALSE, message |-> "", text |-> NoText, scores |-> <<>>]

Init ==
    /\ pc = "start"
    /\ papers \in {InputPapers(n) : n \in PaperCounts}
    /\ explorationLevel \in ExplorationLevels
    /\ apiKey \in ApiKeys
    /\ batches = <<>>
    /\ batchIdx = 0
    /\ aiScores = <<>>
    /\ lastError = ""
    /\ batchesSucceeded = 0
    /\ inFlight = {}
    /\ calls = <<>>
    /\ result = NoResult
    /\ scorePc = "idle"
    /\ userProfile = NoProfile
    /\ rawPapers = <<>>
    /\ processed = NoProcessed
    /\ scorer = NoScorer
    /\ scoreCalls = <<>>
    /\ request = NoRequest
    /\ response = NoResponse

\* the loop goes on to batch idx: it awaits the next callGemini, or the loop is
\* over (brk, or no batch is left) and aiRerank returns
Proceed(bs, idx, brk, scores, message, succeeded, history) ==
    /\ batchIdx' = idx
    /\ IF ~brk /\ idx <= Len(bs)
         THEN /\ pc' = "await"
              /\ inFlight' = {bs[idx].offset}
              /\ calls' = Append(history, Pending(bs[idx]))
              /\ result' = result
              /\ papers' = papers
         ELSE /\ pc' = "done"
              /\ inFlight' = {}
              /\ calls' = history
              /\ result' \in Results(papers, scores, message, succeeded, explorationLevel)
              /\ papers' = RerankArrays(papers, result').papers

\* if (!apiKey) return { papers, aiEnhanced: false, aiPapersScored: 0, error: "No API key" }
RerankNoKey ==
    /\ pc = "start"
    /\ apiKey = ""
    /\ pc' = "done"
    /\ result' = UnchangedResult(papers, MsgNoKey)
    /\ UNCHANGED <<papers, explorationLevel, apiKey, batches, batchIdx, aiScores,
                   lastError, batchesSucceeded, inFlight, calls>>
    /\ UNCHANGED <<scoreVars, httpVars>>

\* aiRerank up to its first await
RerankStart ==
    /\ pc = "start"
    /\ apiKey # ""
    /\ batches' = BuildBatches(toScore(papers))
    /\ Proceed(batches', 1, FALSE, aiScores, lastError, batchesSucceeded, calls)
    /\ UNCHANGED <<explorationLevel, apiKey, aiScores, lastError, batchesSucceeded>>
    /\ UNCHANGED <<scoreVars, httpVars>>

Completed(threw, message, text, scores) ==
    [calls EXCEPT ![Len(calls)] =
        [@ EXCEPT !.pending = FALSE, !.threw = threw, !.message = message,
                  !.text = text, !.scores = scores]]

\* callGemini returns a text: the try block runs to its end
ReplyReturned ==
    /\ pc = "await"
    /\ \E reply \in Replies(Len(batches[batchIdx].papers), Len(papers)) :
        LET out == callGemini(reply)
            scores == parseScores(out.text, Len(batches[batchIdx].papers))
        IN  /\ ~out.threw
            /\ aiScores' = SetScores(aiScores, batches[batchIdx].offset, scores)
            /\ batchesSucceeded' = CountSuccess(batchesSucceeded, scores)
            /\ Proceed(batches, batchIdx + 1, FALSE, aiScores', lastError,
                       batchesSucceeded', Completed(FALSE, "", out.text, scores))
    /\ UNCHANGED <<explorationLevel, apiKey, batches, lastError>>
    /\ UNCHANGED <<scoreVars, httpVars>>

\* callGemini throws: the catch block
ReplyThrew ==
    /\ pc = "await"
    /\ \E reply \in Replies(Len(batches[batchIdx].papers), Len(papers)) :
        LET out == callGemini(reply)
        IN  /\ out.threw
            /\ IF Catches(out.message)
                 THEN /\ lastError' = out.message
                      /\ Proceed(batches, batchIdx + 1, ShouldBreak(out.message),
                                 aiScores, lastError', batchesSucceeded,
                                 Completed(TRUE, out.message, NoText, <<>>))
                 ELSE /\ pc' = "thrown"
                      /\ inFlight' = {}
                      /\ calls' = Completed(TRUE, out.message, NoText, <<>>)
                      /\ UNCHANGED <<lastError, batchIdx, result, papers>>
    /\ UNCHANGED <<explorationLevel, apiKey, batches, aiScores, batchesSucceeded>>
    /\ UNCHANGED <<scoreVars, httpVars>>

Next == RerankNoKey \/ RerankStart \/ ReplyReturned \/ ReplyThrew

Spec == Init /\ [][Next]_vars

(***************************************************************************)
(* The state machine of one processPapers call                             *)
(***************************************************************************)
InitScore ==
    /\ scorePc = "start"
    /\ \/ /\ userProfile \in {q \in Profiles : /\ ~q.include_adjacent_fields
                                                /\ q.selected_adjacent_fields = {}}
          /\ rawPapers \in PaperLists(MaxScorePapers)
       \/ /\ userProfile \in ProfileCases
          /\ rawPapers \in {<<paper>> : paper \in PaperCases}
       \/ /\ userProfile \in {q \in ProfileCases : q.interests = <<>> /\ q.methods = <<>>}
          /\ rawPapers \in {<<paper>> : paper \in GridPapers}
    /\ processed = NoProcessed
    /\ scorer = NoScorer
    /\ scoreCalls = <<>>
    /\ request = NoRequest
    /\ response = NoResponse
    /\ pc = "idle"
    /\ papers = <<>>
    /\ explorationLevel = Undefined
    /\ apiKey = ""
    /\ batches = <<>>
    /\ batchIdx = 0
    /\ aiScores = <<>>
    /\ lastError = ""
    /\ batchesSucceeded = 0
    /\ inFlight = {}
    /\ calls = <<>>
    /\ result = NoResult

ProcessPapers ==
    /\ scorePc = "start"
    /\ scorePc' = "done"
    /\ scorer' = IF Len(rawPapers) = 0 THEN scorer
                 ELSE NewRelevanceScorer(scorer, userProfile)
    /\ processed' = IF Len(rawPapers) = 0 THEN processPapers(userProfile, rawPapers)
                    ELSE processPapers(scorer'.profile, rawPapers)
    /\ rawPapers' = ProcessArrays(rawPapers, processed').papers
    /\ scoreCalls' = Append(scoreCalls, [profile |-> userProfile, papers |-> rawPapers,
                                         returned |-> processed'])
    /\ UNCHANGED userProfile
    /\ UNCHANGED <<rerankVars, httpVars>>

NextScore == ProcessPapers

SpecScore == InitScore /\ [][NextScore]_vars

(***************************************************************************)
(* processPapers for profiles that differ in the list of interests         *)
(***************************************************************************)
\* lists of interests of the dictionary, the same labels in several orders
InterestLists ==
    {<<>>, <<"Inequality">>, <<"Education", "Inequality">>,
     <<"Inequality", "Education", "Labor Markets">>,
     <<"Labor Markets", "Education", "Inequality">>}

InterestProfiles ==
    { Profile(field, interests, methods, "no_preference", FALSE, {}) :
        field \in {"Labor Economics", "General Interest (Show me everything)"},
        interests \in InterestLists,
        methods \in {<<>>, <<"Difference-in-Differences">>} }

InitInterests ==
    /\ scorePc = "start"
    /\ userProfile \in InterestProfiles
    /\ rawPapers \in PaperLists(MaxScorePapers) \cup {<<paper>> : paper \in PaperCases}
    /\ processed = NoProcessed
    /\ scorer = NoScorer
    /\ scoreCalls = <<>>
    /\ request = NoRequest
    /\ response = NoResponse
    /\ pc = "idle"
    /\ papers = <<>>
    /\ explorationLevel = Undefined
    /\ apiKey = ""
    /\ batches = <<>>
    /\ batchIdx = 0
    /\ aiScores = <<>>
    /\ lastError = ""
    /\ batchesSucceeded = 0
    /\ inFlight = {}
    /\ calls = <<>>
    /\ result = NoResult

NextInterests == ProcessPapers

SpecInterests == InitInterests /\ [][NextInterests]_vars

(***************************************************************************)
(* processPapers called again and again by its caller, with the same or    *)
(* with other arguments                                                    *)
(***************************************************************************)
CallInputs ==
    {<<q, ps>> : q \in {CallProfile, NoProfile},
                 ps \in {<<WeakPaper, StrongPaper>>, <<StrongPaper, WeakPaper>>,
                         <<MiddlePaper>>}}

InitRepeat ==
    /\ scorePc = "start"
    /\ \E input \in CallInputs : userProfile = input[1] /\ rawPapers = input[2]
    /\ processed = NoProcessed
    /\ scorer = NoScorer
    /\ scoreCalls = <<>>
    /\ request = NoRequest
    /\ response = NoResponse
    /\ pc = "idle"
    /\ papers = <<>>
    /\ explorationLevel = Undefined
    /\ apiKey = ""
    /\ batches = <<>>
    /\ batchIdx = 0
    /\ aiScores = <<>>
    /\ lastError = ""
    /\ batchesSucceeded = 0
    /\ inFlight = {}
    /\ calls = <<>>
    /\ result = NoResult

\* the caller invokes processPapers once more
CallAgain ==
    /\ scorePc = "done"
    /\ Len(scoreCalls) < MaxCalls
    /\ scorePc' = "start"
    /\ \E input \in CallInputs : userProfile' = input[1] /\ rawPapers' = input[2]
    /\ UNCHANGED <<processed, scorer, scoreCalls>>
    /\ UNCHANGED <<rerankVars, httpVars>>

NextRepeat == ProcessPapers \/ CallAgain

SpecRepeat == InitRepeat /\ [][NextRepeat]_vars

(***************************************************************************)
(* One processPapers call and one aiRerank call, each on its own inputs,   *)
(* in any interleaving                                                     *)
(***************************************************************************)
InitCalls ==
    /\ pc = "start"
    /\ papers \in {InputPapers(n) : n \in (0..MaxOddPapers) \cup {BATCH_SIZE + 1}}
    /\ explorationLevel \in ExplorationLevels
    /\ apiKey \in ApiKeys
    /\ batches = <<>>
    /\ batchIdx = 0
    /\ aiScores = <<>>
    /\ lastError = ""
    /\ batchesSucceeded = 0
    /\ inFlight = {}
    /\ calls = <<>>
    /\ result = NoResult
    /\ scorePc = "start"
    /\ userProfile \in {NoProfile, CallProfile}
    /\ rawPapers \in {<<WeakPaper, StrongPaper>>, <<StrongPaper, WeakPaper>>}
    /\ processed = NoProcessed
    /\ scorer = NoScorer
    /\ scoreCalls = <<>>
    /\ request = NoRequest
    /\ response = NoResponse

NextCalls == Next \/ NextScore

SpecCalls == InitCalls /\ [][NextCalls]_vars

(***************************************************************************)
(* The state machine of one request to the recommend endpoint              *)
(***************************************************************************)
InitRecommend ==
    /\ request \in Requests
    /\ response = NoResponse
    /\ scorePc = "idle"
    /\ userProfile = NoProfile
    /\ rawPapers = <<>>
    /\ processed = NoProcessed
    /\ scorer = NoScorer
    /\ scoreCalls = <<>>
    /\ pc = "idle"
    /\ papers = <<>>
    /\ explorationLevel = Undefined
    /\ apiKey = ""
    /\ batches = <<>>
    /\ batchIdx = 0
    /\ aiScores = <<>>
    /\ lastError = ""
    /\ batchesSucceeded = 0
    /\ inFlight = {}
    /\ calls = <<>>
    /\ result = NoResult

\* POST from its entry to the call of processPapers or to an early answer
PostValidate ==
    /\ request # NoRequest
    /\ response = NoResponse
    /\ scorePc = "idle"
    /\ IF Rejection(request) # NoResponse
         THEN /\ response' = Rejection(request)
              /\ UNCHANGED <<scorePc, userProfile, rawPapers>>
         ELSE /\ scorePc' = "start"
              /\ userProfile' = request.profile.fields
              /\ rawPapers' = request.papers.items
              /\ response' = response
    /\ UNCHANGED <<request, processed, scorer, scoreCalls>>
    /\ UNCHANGED rerankVars

\* POST after processPapers has returned (route.ts:43-48)
PostRespond ==
    /\ request # NoRequest
    /\ response = NoResponse
    /\ scorePc = "done"
    /\ response' = OkResponse(processed)
    /\ UNCHANGED <<request, scoreVars, rerankVars>>

NextRecommend == PostValidate \/ ProcessPapers \/ PostRespond

SpecRecommend == InitRecommend /\ [][NextRecommend]_vars

(***************************************************************************)
(* Properties of aiRerank                                                  *)
(***************************************************************************)
Done == pc = "done"

CallThrew(k) == calls[k].threw
CallScored(k) == ~calls[k].pending /\ ~calls[k].threw /\ Len(calls[k].scores) > 0

\* the paper at input position i (1-based) was given an entry by some reply
GotEntry(i) ==
    \E k \in 1..Len(calls) : \E m \in 1..Len(calls[k].scores) :
        calls[k].offset * 100 + calls[k].scores[m].index = (i - 1) * 100

ScoreDone == scorePc = "done"

\* C1: every relevance_score processPapers assigns lies in [1.0, 10.0]
\* (10..100 in tenths), for every profile and every paper.
C1_ScoreInRange ==
    ScoreDone =>
        \A i \in 1..Len(processed.papers) :
            /\ processed.papers[i].relevance_score >= 10
            /\ processed.papers[i].relevance_score <= 100

\* a list was scored in which one paper got the highest score there is, 10.0,
\* and another one a score below the 3.0 the baseline starts from
C1_Witness ==
    /\ ScoreDone
    /\ Len(processed.papers) = Len(rawPapers)
    /\ \E i, j \in 1..Len(processed.papers) :
           /\ processed.papers[i].relevance_score = 100
           /\ processed.papers[j].relevance_score < 30
           /\ processed.papers[j].is_adjacent_field

IsUnchanged ==
    /\ result.aiEnhanced = FALSE
    /\ result.aiPapersScored = 0
    /\ result.error # ""
    /\ result.papers = papers

\* C2: if every external call fails, aiRerank returns aiEnhanced=false,
\* aiPapersScored=0, a non-empty error and the input list as it was.
C2_AllFailedUnchanged ==
    (Done /\ Len(calls) >= 1 /\ \A k \in 1..Len(calls) : CallThrew(k)) => IsUnchanged

\* every batch of a list of several batches was called and failed
C2_Witness ==
    /\ Done
    /\ Len(calls) >= 2
    /\ Len(calls) = Len(batches)
    /\ \A k \in 1..Len(calls) : CallThrew(k)
    /\ IsUnchanged

\* C3: a timeout is only a batch failure: the batch loop goes on to call the
\* service for the batches that follow it.
C3_TimeoutContinues ==
    Done => \A k \in 1..Len(calls) :
                (calls[k].message = MsgTimeout /\ k < Len(batches)) => Len(calls) > k

AuthClass == {MsgQuota, MsgInvalidKey, MsgPermission, MsgModel}

AbortedAt(k) == ~calls[k].pending /\ calls[k].threw /\ calls[k].message \in AuthClass

\* C4: after a batch fails with an authentication, quota, permission or
\* model-availability error no later batch is called; the result is unchanged
\* if no earlier batch succeeded, otherwise the earlier scores are blended and
\* returned with aiEnhanced=true and the error recorded.
C4_AuthErrorStops ==
    \A k \in 1..Len(calls) :
        AbortedAt(k) =>
            /\ k = Len(calls)
            /\ Done
            /\ IF \E j \in 1..(k - 1) : CallScored(j)
                 THEN /\ result.aiEnhanced
                      /\ result.error = calls[k].message
                      /\ \A i \in 1..Len(papers) :
                            GotEntry(i) =>
                                \E j \in 1..Len(result.papers) :
                                    /\ result.papers[j].id = papers[i].id
                                    /\ result.papers[j].ai_score # Undefined
                                    /\ result.papers[j].original_score =
                                           papers[i].relevance_score
                 ELSE result = UnchangedResult(papers, calls[k].message)

\* a batch succeeded, the next one failed with such an error, batches were left
C4_Witness ==
    /\ Done
    /\ Len(calls) >= 2
    /\ Len(calls) < Len(batches)
    /\ AbortedAt(Len(calls))
    /\ CallScored(1)
    /\ result.aiEnhanced

StatedBlend(original, relevance, discovery, e) ==
    LET tw == 550 - 2 * e
        combined == relevance * (1000 - 4 * e) + discovery * 4 * e
        sum == original * tw * 1000 + combined * (1000 - tw)
        rounded == (sum + 5 * 10^5) \div 10^6
    IN  Max(10, Min(100, rounded))

InputScoreOf(id) == papers[CHOOSE i \in 1..Len(papers) : papers[i].id = id].relevance_score

\* C7: every paper with an AI score has relevance_score equal to the stated
\* blend of original_score, ai_score and ai_discovery; original_score is its
\* score before the blend and the result lies in [1, 10].
C7_BlendFormula ==
    Done =>
        \A j \in 1..Len(result.papers) :
            LET p == result.papers[j]
            IN  p.ai_score # Undefined =>
                    /\ p.original_score = InputScoreOf(p.id)
                    /\ p.relevance_score \in 10..100
                    /\ p.relevance_score =
                           StatedBlend(p.original_score, p.ai_score, p.ai_discovery,
                                       Exploration(explorationLevel))

\* C8: in an enhanced result every paper that no reply gave an entry is
\* returned with all its fields unchanged and without ai_score/original_score.
C8_UnscoredUnchanged ==
    (Done /\ result.aiEnhanced) =>
        \A i \in 1..Len(papers) :
            ~GotEntry(i) =>
                /\ papers[i].ai_score = Undefined
                /\ papers[i].original_score = Undefined
                /\ \E j \in 1..Len(result.papers) : result.papers[j] = papers[i]

\* one batch scored, one threw, one reply left entries out
C8_Witness ==
    /\ Done
    /\ result.aiEnhanced
    /\ \E k \in 1..Len(calls) : CallThrew(k)
    /\ \E k \in 1..Len(calls) :
          CallScored(k) /\ Len(calls[k].scores) < Len(calls[k].sent)
    /\ \E i \in 1..Min(Len(papers), TopN) : ~GotEntry(i)

\* a >= b for JavaScript numbers
NumGeq(a, b) == ~IsNaN(a) /\ ~IsNaN(b) /\ a >= b

\* C9: in an enhanced result every paper's relevance_score is at least that of
\* the paper after it.
C9_SortedDescending ==
    (Done /\ result.aiEnhanced) =>
        \A j \in 1..(Len(result.papers) - 1) :
            NumGeq(result.papers[j].relevance_score, result.papers[j + 1].relevance_score)

ThisLevel == Exploration(explorationLevel)

StatedBaseline(tier, cites) ==
    LET tierScore == CASE tier = 1 -> 100 [] tier = 2 -> 80 [] tier = 3 -> 60 [] OTHER -> 30
        citeScore == CASE cites >= 50 -> 100 [] cites >= 20 -> 85 [] cites >= 10 -> 70
                       [] cites >= 5 -> 55 [] cites >= 1 -> 40 [] OTHER -> 30
    IN  3 * 10^6 + ((tierScore * 6 + citeScore * 4) \div 10) * 2 * 10^4

\* a non-generalist profile with no interests and no methods
BareSpecialist ==
    /\ ~isGeneralist(userProfile)
    /\ userProfile.interests = <<>>
    /\ userProfile.methods = <<>>

\* C12: for a non-generalist profile with no interests and no methods,
\* topicAddition = methodAddition = 0 for every paper and the score is
\* clamp(baseline * fieldModifier) rounded to one decimal: a function of the
\* journal tier, the citation count and the field modifier alone.
C12_BareProfileScore ==
    (ScoreDone /\ BareSpecialist) =>
        \A i \in 1..Len(processed.papers) :
            LET p == processed.papers[i]
                modifier == scoreFieldRelevance(userProfile, p).modifier
                final == Max(10^8, Min(10^9,
                             StatedBaseline(p.journal_tier, p.cited_by_count) * modifier))
            IN  /\ ScoreParts(userProfile, p).sub.topicAddition = 0
                /\ ScoreParts(userProfile, p).sub.methodAddition = 0
                /\ p.relevance_score = (final + 5 * 10^6) \div 10^7
                /\ p.matched_interests = <<>>
                /\ p.matched_methods = <<>>

\* such a profile scored a tier-1 paper with 60 citations whose concepts match
\* the concepts of the profile's field: it got the 5.0 of its baseline
C12_Witness ==
    /\ ScoreDone
    /\ BareSpecialist
    /\ \E i \in 1..Len(processed.papers) :
           /\ ScoreParts(userProfile, processed.papers[i]).sub.conceptScore > 0
           /\ processed.papers[i].matched_topics # <<>>
           /\ processed.papers[i].journal_field = ""
           /\ processed.papers[i].relevance_score = 50

\* the tier and the citation count with the lowest tierScore and citeScore
LowestInputs(paper) == paper.journal_tier \notin {1, 2, 3} /\ paper.cited_by_count < 1

\* the tier and a citation count with the highest tierScore and citeScore
HighestInputs(paper) == paper.journal_tier = 1 /\ paper.cited_by_count >= 50

\* C17 as stated: the baseline is 3.0 + (tierScore*0.6 + citeScore*0.4)*2.0 and
\* its range is exactly [3.0, 5.0]: no baseline lies outside, the lowest
\* inputs give 3.0 and the highest give 5.0.
C17_BaselineRangeFromThree ==
    ScoreDone =>
        \A i \in 1..Len(rawPapers) :
            LET paper == rawPapers[i]
                baseline == scoreBaseline(paper)
            IN  /\ baseline = StatedBaseline(paper.journal_tier, paper.cited_by_count)
                /\ baseline >= 3 * 10^6
                /\ baseline <= 5 * 10^6
                /\ LowestInputs(paper) => baseline = 3 * 10^6
                /\ HighestInputs(paper) => baseline = 5 * 10^6

\* C17 amended: the baseline is 3.0 + (tierScore*0.6 + citeScore*0.4)*2.0 and
\* its range is exactly [3.6, 5.0]: no baseline lies outside, the lowest
\* inputs give 3.6 and the highest give 5.0; a specialist with no interests
\* and no methods gets it, rounded, as the score of a paper without field tag.
C17_BaselineRange ==
    ScoreDone =>
        \A i \in 1..Len(rawPapers) :
            LET paper == rawPapers[i]
                baseline == scoreBaseline(paper)
            IN  /\ baseline = StatedBaseline(paper.journal_tier, paper.cited_by_count)
                /\ baseline >= 36 * 10^5
                /\ baseline <= 5 * 10^6
                /\ LowestInputs(paper) => baseline = 36 * 10^5
                /\ HighestInputs(paper) => baseline = 5 * 10^6
                /\ (BareSpecialist /\ Len(rawPapers) = 1 /\ paper.journal_field = "") =>
                       processed.papers[1].relevance_score = (baseline + 5 * 10^4) \div 10^5

\* a list with a paper of the lowest and a paper of the highest baseline was scored
C17_Witness ==
    /\ ScoreDone
    /\ \E i, j \in 1..Len(rawPapers) :
           /\ LowestInputs(rawPapers[i])
           /\ scoreBaseline(rawPapers[i]) = 36 * 10^5
           /\ HighestInputs(rawPapers[j])
           /\ scoreBaseline(rawPapers[j]) = 5 * 10^6

\* the profile of the scenarios: interests ["Inequality"], no methods, no
\* approach preference
InequalityProfile ==
    /\ userProfile.interests = <<"Inequality">>
    /\ userProfile.methods = <<>>
    /\ userProfile.approach_preference = "no_preference"

\* one paper was scored: of an unlisted journal without field tag, with no
\* citations, whose text and concepts share nothing with the Inequality entry
UnlistedScored ==
    /\ ScoreDone
    /\ Len(rawPapers) = 1
    /\ rawPapers[1].id = "plain"
    /\ rawPapers[1].journal_tier \in {0, 4}
    /\ rawPapers[1].journal_field = ""
    /\ rawPapers[1].cited_by_count = 0

\* C18 as stated: for the scenario profile such a paper has a baseline of
\* about 3.24 (to two decimals), topicAddition = 0, a final score within
\* 3.2..3.5 and no matched interests.
C18_UnlistedAboutThreePointTwo ==
    (UnlistedScored /\ InequalityProfile) =>
        /\ (scoreBaseline(rawPapers[1]) + 5000) \div 10^4 = 324
        /\ ScoreParts(userProfile, rawPapers[1]).sub.topicAddition = 0
        /\ processed.papers[1].relevance_score \in 32..35
        /\ processed.papers[1].matched_interests = <<>>

\* C18 amended: for the scenario profile such a paper has the baseline 3.6,
\* topicAddition = 0, the final score 3.6 and no matched interests.
C18_UnlistedPaper ==
    (UnlistedScored /\ InequalityProfile) =>
        /\ scoreBaseline(rawPapers[1]) = 36 * 10^5
        /\ ScoreParts(userProfile, rawPapers[1]).sub.topicAddition = 0
        /\ processed.papers[1].relevance_score = 36
        /\ processed.papers[1].matched_interests = <<>>

\* the scenario profile scored such a paper of tier 4
C18_Witness ==
    /\ UnlistedScored
    /\ InequalityProfile
    /\ rawPapers[1].journal_tier = 4
    /\ processed.papers[1].relevance_score = 36

\* the number of terms of the Inequality entry in the text of a paper
InequalityTerms(paper) == countKeywordMatches(TextOf(paper), INTEREST_KEYWORDS("Inequality"))[1]

\* one paper was scored: tier 1, 60 citations, no adjacent field
TopJournalScored ==
    /\ ScoreDone
    /\ Len(rawPapers) = 1
    /\ rawPapers[1].journal_tier = 1
    /\ rawPapers[1].cited_by_count >= 60
    /\ ~isAdjacentField(rawPapers[1].journal_field)

C20_CoreFieldNoModifier ==
    ScoreDone =>
        \A i \in 1..Len(processed.papers) :
            LET p == processed.papers[i]
            IN  (p.journal_field = "" \/ ~isAdjacentField(p.journal_field)) =>
                    /\ scoreFieldRelevance(userProfile, p).modifier = 100
                    /\ p.is_adjacent_field = FALSE

\* the profile with its interests reordered by the permutation f of positions
Reordered(f) ==
    [userProfile EXCEPT
        !.interests = [i \in 1..Len(userProfile.interests) |-> userProfile.interests[f[i]]]]

\* every reordering of the interests matches the text with the labels in matched
SameLabelsInAnyOrder(text, matched) ==
    \A f \in Permutations(1..Len(userProfile.interests)) :
        Range(scoreInterestKeywords(Reordered(f), text).matched) = Range(matched)

\* C13: for a fixed paper, every reordering of the profile's interests gives
\* the same set of labels in matched_interests as the order that was scored.
C13_MatchedSetOrderFree ==
    ScoreDone =>
        \A i \in 1..Len(processed.papers) :
            SameLabelsInAnyOrder(TextOf(processed.papers[i]), processed.papers[i].matched_interests)

\* a profile with three interests scored a paper that matches its last
\* interest and another one, and a paper that matches fewer of them
C13_Witness ==
    /\ ScoreDone
    /\ Len(userProfile.interests) = 3
    /\ \E i, j \in 1..Len(processed.papers) :
           /\ userProfile.interests[3] \in Range(processed.papers[i].matched_interests)
           /\ Len(processed.papers[i].matched_interests) >= 2
           /\ Len(processed.papers[j].matched_interests) < Len(processed.papers[i].matched_interests)

\* the position in the input list of the paper returned at position i
InputPosition(i) ==
    CHOOSE k \in 1..Len(rawPapers) : rawPapers[k].id = processed.papers[i].id

\* the papers of the input lists of several papers carry distinct ids
DistinctIds == \A k, l \in 1..Len(rawPapers) : rawPapers[k].id = rawPapers[l].id => k = l

\* C16: the list processPapers returns is a permutation of the input papers in
\* non-increasing order of relevance_score, and papers of equal score keep
\* the order they had in the input.
C16_SortedStablePermutation ==
    (ScoreDone /\ DistinctIds) =>
        /\ Len(processed.papers) = Len(rawPapers)
        /\ \A k \in 1..Len(rawPapers) :
               \E i \in 1..Len(processed.papers) :
                   /\ processed.papers[i].id = rawPapers[k].id
                   /\ \A field \in DOMAIN rawPapers[k] :
                          processed.papers[i][field] = rawPapers[k][field]
        /\ \A i, j \in 1..Len(processed.papers) :
               i < j =>
                   /\ processed.papers[i].relevance_score >= processed.papers[j].relevance_score
                   /\ processed.papers[i].relevance_score = processed.papers[j].relevance_score
                          => InputPosition(i) < InputPosition(j)

\* two papers of equal score were returned in their input order
C16_Witness ==
    /\ ScoreDone
    /\ DistinctIds
    /\ Len(processed.papers) = 2
    /\ processed.papers[1].relevance_score = processed.papers[2].relevance_score
    /\ processed.papers[1].relevance_score > 36
    /\ InputPosition(1) = 1
    /\ InputPosition(2) = 2

SameArguments(i, j) ==
    /\ scoreCalls[i].profile = scoreCalls[j].profile
    /\ scoreCalls[i].papers = scoreCalls[j].papers

OptIns(profile) ==
    IF profile.include_adjacent_fields THEN profile.selected_adjacent_fields ELSE {}

AdjacentScored ==
    /\ ScoreDone
    /\ Len(rawPapers) = 1
    /\ isAdjacentField(rawPapers[1].journal_field)

StatedModifier(profile, paper) ==
    IF paper.journal_field \in OptIns(profile) THEN 95 ELSE 70

\* the stated rule for one adjacent-field paper, its sub-scores and its result
AdjacentRule(profile, paper, sub, scored) ==
    /\ scored.is_adjacent_field
    /\ sub.fieldRelevance = StatedModifier(profile, paper)
    /\ sub.fieldRelevance > 0
    /\ scored.relevance_score =
           (Max(10^8, Min(10^9,
                (sub.baselineScore + sub.topicAddition + sub.methodAddition)
                    * StatedModifier(profile, paper)))
              + 5 * 10^6) \div 10^7

\* C21: a paper of an adjacent field is marked is_adjacent_field, and its score
\* is (baseline + topicAddition + methodAddition) times 0.95 if the user opted
\* into the field and times 0.7 otherwise, clamped and rounded: the modifier
\* is never 0.
C21_AdjacentModifier ==
    AdjacentScored =>
        AdjacentRule(userProfile, rawPapers[1],
                     ScoreParts(userProfile, rawPapers[1]).sub, processed.papers[1])

\* a psychology paper that scores 8.0 before the modifier is returned with
\* 5.6 for the scenario profile, which has not opted into psychology
C21_Witness ==
    /\ AdjacentScored
    /\ InequalityProfile
    /\ rawPapers[1].journal_field = "psychology"
    /\ rawPapers[1].journal_field \notin OptIns(userProfile)
    /\ processed.papers[1].is_adjacent_field
    /\ processed.papers[1].relevance_score = 56

\* the composer rules as stated, over sub-scores in 10^-6
StatedTopicBonus(conceptScore, keywordScore) ==
    IF conceptScore > 3 * 10^5 /\ keywordScore > 3 * 10^5
      THEN Min(10^6, (Max(conceptScore, keywordScore) * 115) \div 100)
      ELSE Max(conceptScore, keywordScore)

StatedTopicAddition(profile, sub) ==
    IF Len(profile.interests) > 0
      THEN StatedTopicBonus(sub.conceptScore, sub.keywordScore) * 3
    ELSE IF isGeneralist(profile) THEN sub.conceptScore
    ELSE 0

StatedMethodAddition(profile, sub) ==
    IF Len(profile.methods) > 0
      THEN ((sub.methodScore * 8 + sub.approachScore * 2) \div 10) * 2
      ELSE 0

\* raw score in 10^-8: the sum in 10^-6 times the modifier in hundredths
StatedRaw(profile, sub) ==
    (sub.baselineScore + StatedTopicAddition(profile, sub) + StatedMethodAddition(profile, sub))
        * sub.fieldRelevance

ComposerRules(profile, parts, scored) ==
    /\ parts.sub.topicAddition = StatedTopicAddition(profile, parts.sub)
    /\ parts.sub.methodAddition = StatedMethodAddition(profile, parts.sub)
    /\ parts.rawScore = StatedRaw(profile, parts.sub)
    /\ scored.relevance_score =
           (Max(10^8, Min(10^9, StatedRaw(profile, parts.sub))) + 5 * 10^6) \div 10^7

\* the returned paper that was made from the input paper at position k
ScoredFrom(k) ==
    processed.papers[CHOOSE j \in 1..Len(processed.papers) :
                         processed.papers[j].id = rawPapers[k].id]

\* C25: for every profile and paper, topicAddition is 3.0 times topicBonus
\* (the larger of conceptScore and keywordScore, times 1.15 up to 1.0 when
\* both exceed 0.3) if the profile has interests, conceptScore if it has none
\* and is a generalist's, else 0; methodAddition is 2.0 times (methodScore *
\* 0.8 + approachScore * 0.2) if the profile has methods, else 0; and the raw
\* score is (baseline + topicAddition + methodAddition) * fieldModifier.
C25_ComposerRules ==
    (ScoreDone /\ DistinctIds) =>
        \A k \in 1..Len(rawPapers) :
            ComposerRules(userProfile, ScoreParts(userProfile, rawPapers[k]), ScoredFrom(k))

BoostedTopic(sub) ==
    /\ sub.conceptScore > 3 * 10^5
    /\ sub.keywordScore > 3 * 10^5
    /\ sub.topicAddition > 3 * Max(sub.conceptScore, sub.keywordScore)
    /\ sub.methodAddition > 0
    /\ sub.fieldRelevance = 70

\* a paper of an adjacent field with good concept and keyword scores and a
\* matched method was scored for a profile with interests and methods
C25_Witness ==
    /\ ScoreDone
    /\ Len(rawPapers) = 1
    /\ Len(userProfile.interests) > 0
    /\ Len(userProfile.methods) > 0
    /\ BoostedTopic(ScoreParts(userProfile, rawPapers[1]).sub)

\* the first n interests of the profile that was scored
FirstInterests(n) == SubSeq(userProfile.interests, 1, n)

\* the interest keyword score of the paper text for a list of interests
KeywordScoreOf(interests, text) ==
    scoreInterestKeywords([userProfile EXCEPT !.interests = interests], text).score

\* the text matches the n-th interest of the profile
MatchesInterest(n, text) ==
    HitOf(text, INTEREST_KEYWORDS(userProfile.interests[n]))[1] > 0

\* the position-weighted sub-scores of the matched ones among the first n interests
SubScoresOf(n, text) == MatchInterests(FirstInterests(n), 0, text).scores

\* the sub-score of the n-th interest is at least the average of the
\* sub-scores matched before it (or none was matched before it)
AtLeastAverage(now, before) ==
    now[Len(now)] * Len(before) >= SeqSum(before)

NotBelowAverage(n, text) ==
    AtLeastAverage(SubScoresOf(n, text), SubScoresOf(n - 1, text))

\* the n-th interest, if the text matches it, does not lower the score
ExtraMatchNeverLowers(n, text) ==
    MatchesInterest(n, text) =>
        KeywordScoreOf(FirstInterests(n), text) >= KeywordScoreOf(FirstInterests(n - 1), text)

\* the same when the n-th sub-score is at least the average before it
ExtraMatchAtAverage(n, text) ==
    (MatchesInterest(n, text) /\ NotBelowAverage(n, text)) =>
        KeywordScoreOf(FirstInterests(n), text) >= KeywordScoreOf(FirstInterests(n - 1), text)

\* the rule for every interest of the profile
EveryInterest(text, amended) ==
    \A n \in 1..Len(userProfile.interests) :
        IF amended THEN ExtraMatchAtAverage(n, text) ELSE ExtraMatchNeverLowers(n, text)

GeneralistNoInterests == isGeneralist(userProfile) /\ userProfile.interests = <<>>

StatedBareScore(profile, paper) ==
    (Max(10^8, Min(10^9, StatedBaseline(paper.journal_tier, paper.cited_by_count)
                             * scoreFieldRelevance(profile, paper).modifier))
       + 5 * 10^6) \div 10^7

NothingForTopic(profile, sub, scored) ==
    /\ sub.conceptScore = 0
    /\ sub.topicAddition = 0
    /\ scored.matched_topics = <<>>
    /\ profile.methods = <<>> =>
           /\ sub.methodAddition = 0
           /\ scored.relevance_score = StatedBareScore(profile, scored)

CallReturned(k) == ~calls[k].pending /\ ~calls[k].threw

\* the entries of the text call k returned (none if it is no JSON array)
EntriesOf(k) == IF calls[k].text.kind = "array" THEN calls[k].text.items ELSE <<>>

\* entry m of call k is well formed: an object with a numeric index within
\* the batch and a numeric score (r, or s of the older format)
WellFormed(k, m) ==
    /\ EntriesOf(k)[m].obj
    /\ EntriesOf(k)[m].i.t = "number"
    /\ EntriesOf(k)[m].i.n >= 0
    /\ EntriesOf(k)[m].i.n <= (Len(calls[k].sent) - 1) * 100
    /\ EntriesOf(k)[m].r.t = "number" \/ EntriesOf(k)[m].s.t = "number"

WellFormedIn(k) == {m \in 1..Len(EntriesOf(k)) : WellFormed(k, m)}

\* C22 as stated: malformed entries of a returned text (no numeric index, no
\* numeric score, index outside 0..batchSize-1) are dropped and nothing is
\* thrown; every well-formed entry is kept and recorded in aiScores under its
\* paper; the batches counted as succeeded are those with a well-formed
\* entry; and after a text without one the next batch is still called.
C22_MalformedEntriesDropped ==
    /\ pc # "thrown"
    /\ \A k \in 1..Len(calls) :
           CallReturned(k) =>
               /\ Len(calls[k].scores) = Cardinality(WellFormedIn(k))
               /\ \A m \in WellFormedIn(k) :
                      /\ \E j \in 1..Len(calls[k].scores) :
                             calls[k].scores[j].index = EntriesOf(k)[m].i.n
                      /\ (calls[k].offset * 100 + EntriesOf(k)[m].i.n) \in DOMAIN aiScores
               /\ (WellFormedIn(k) = {} /\ calls[k].offset + BATCH_SIZE < Len(toScore(papers)))
                      => Len(calls) > k
    /\ batchesSucceeded =
           Cardinality({k \in 1..Len(calls) : CallReturned(k) /\ WellFormedIn(k) # {}})

\* entry m of call k has the older format: an index and the one score s
LegacyEntry(k, m) ==
    /\ EntriesOf(k)[m].obj
    /\ EntriesOf(k)[m].i.t = "number"
    /\ EntriesOf(k)[m].i.n >= 0
    /\ EntriesOf(k)[m].i.n < Len(calls[k].sent) * 100
    /\ EntriesOf(k)[m].s.t = "number"
    /\ EntriesOf(k)[m].r.t = "undefined"
    /\ EntriesOf(k)[m].d.t = "undefined"

\* s (hundredths) to one decimal within [1, 10], in tenths
StatedClamp(n) == Max(10, Min(100, (n + 5) \div 10))

\* C23 as stated: an entry of the older format is accepted with relevance =
\* discovery = s clamped to [1, 10], and every accepted entry has a score and
\* a discovery that are numbers in [1, 10] (10..100 in tenths).
C23_AcceptedScoresInRange ==
    \A k \in 1..Len(calls) :
        CallReturned(k) =>
            /\ \A m \in 1..Len(EntriesOf(k)) :
                   LegacyEntry(k, m) =>
                       \E j \in 1..Len(calls[k].scores) :
                           /\ calls[k].scores[j].index = EntriesOf(k)[m].i.n
                           /\ calls[k].scores[j].score = StatedClamp(EntriesOf(k)[m].s.n)
                           /\ calls[k].scores[j].discovery = StatedClamp(EntriesOf(k)[m].s.n)
            /\ \A j \in 1..Len(calls[k].scores) :
                   /\ calls[k].scores[j].score \in 10..100
                   /\ calls[k].scores[j].discovery \in 10..100

(***************************************************************************)
(* Properties of the sequence of external calls                            *)
(***************************************************************************)
\* ceil(min(n, 40) / 8) for the n input papers
StatedCallLimit == (Min(Len(papers), 40) + 7) \div 8

PendingCalls == {k \in 1..Len(calls) : calls[k].pending}

\* C26: the calls are issued one after the other in increasing offset order:
\* a call is issued only when every earlier one has returned or thrown, at
\* most one is in flight, a batch holds at most 8 papers, and a rerank issues
\* at most ceil(min(n, 40) / 8) <= 5 calls, none with an empty API key.
C26_SequentialBatches ==
    /\ Cardinality(inFlight) <= 1
    /\ Cardinality(PendingCalls) <= 1
    /\ PendingCalls \subseteq {Len(calls)}
    /\ \A k \in 1..Len(calls) :
           /\ Len(calls[k].sent) \in 1..8
           /\ k > 1 => calls[k].offset > calls[k - 1].offset
           /\ calls[k].pending <=> calls[k].offset \in inFlight
           /\ calls[k].sent = Ids(SubSeq(papers, calls[k].offset + 1,
                                         calls[k].offset + Len(calls[k].sent)))
    /\ Len(calls) <= StatedCallLimit
    /\ StatedCallLimit <= 5
    /\ apiKey = "" => Len(calls) = 0

\* the fifth call of a rerank of more than 40 papers is in flight, the four
\* before it are over
C26_Witness ==
    /\ Len(papers) > 40
    /\ Len(calls) = 5
    /\ PendingCalls = {5}
    /\ inFlight = {32}
    /\ \E k \in 1..4 : CallThrew(k)
    /\ \E k \in 1..4 : CallScored(k)

(***************************************************************************)
(* Properties of the returned list                                         *)
(***************************************************************************)
\* the positions of the returned papers that carry an ai_score
CarryAiScore == {j \in 1..Len(result.papers) : result.papers[j].ai_score # Undefined}

\* C28 as stated: in a result with aiEnhanced = true, aiPapersScored is the
\* number of returned papers that carry an ai_score, and it lies between 1
\* and min(40, number of input papers), whatever entries the replies held.
C28_ScoredCountMatches ==
    (Done /\ result.aiEnhanced) =>
        /\ result.aiPapersScored = Cardinality(CarryAiScore)
        /\ result.aiPapersScored >= 1
        /\ result.aiPapersScored <= Min(40, Len(papers))

\* the positions of the returned list that hold the paper with this id
ReturnedAt(id) == {j \in 1..Len(result.papers) : result.papers[j].id = id}

\* C29: whatever the batches did, the list aiRerank returns holds exactly the
\* input papers: it has the same length and each input paper's id once.
C29_SamePapersReturned ==
    Done =>
        /\ Len(result.papers) = Len(papers)
        /\ \A i \in 1..Len(papers) : Cardinality(ReturnedAt(papers[i].id)) = 1

\* a list of more than 40 papers came back reordered after batches that
\* scored, that left entries out, and that threw
C29_Witness ==
    /\ Done
    /\ result.aiEnhanced
    /\ Len(papers) > 40
    /\ Ids(result.papers) # Ids(papers)
    /\ \E k \in 1..Len(calls) : CallThrew(k)
    /\ \E k \in 1..Len(calls) : CallScored(k) /\ Len(calls[k].scores) < Len(calls[k].sent)
    /\ \E k \in 1..Len(calls) : CallScored(k) /\ Len(calls[k].scores) = Len(calls[k].sent)

(***************************************************************************)
(* Properties of the recommend endpoint                                    *)
(***************************************************************************)
\* the request carries no profile
ProfileMissing == request.kind \in {"null", "primitive"} \/ Falsy(request.profile)

\* the request carries no papers array
PapersNoArray ==
    request.kind \in {"null", "primitive"} \/ Falsy(request.papers) \/ request.papers.t # "array"

Answered == response # NoResponse

\* C24 as stated: a request whose profile is missing, or whose papers value
\* is missing or no array, is answered with status 400 and an error message,
\* and processPapers is not called for it.
C24_InvalidRequestRejected ==
    (request.kind \in {"null", "primitive", "object"} /\ (ProfileMissing \/ PapersNoArray)) =>
        /\ scoreCalls = <<>>
        /\ scorePc = "idle"
        /\ Answered => (response.status = 400 /\ response.error # "")

====
